---- MODULE Spec2Model ----
(***************************************************************************)
(* Model of the M365 mailbox backup tool (src/src/m365_backup).            *)
(*                                                                         *)
(*  - db.py     : the snapshot store.  store_snapshot runs as a            *)
(*                transaction of separate SQL statements (READ COMMITTED,  *)
(*                the PostgreSQL default), several workers at a time.      *)
(*  - main.py   : backup_mailbox, the quota-bounded pagination loop;       *)
(*                backup_tenant, the loop over the users of a tenant; the  *)
(*                CLI snapshot action.                                     *)
(*  - tasks.py  : the Celery tasks and their entries in the result backend.*)
(*  - web.py    : get_backup_status, stream_backup_status, trigger_backup. *)
(*  - scripts/scheduler_runner.py : snapshot_job.                          *)
(*                                                                         *)
(* Specifications:                                                         *)
(*    Spec      concurrent workers calling store_snapshot, and readers     *)
(*    SeqSpec   one caller invoking store_snapshot call after call         *)
(*    OpsSpec   every operation on the database, one at a time             *)
(*    PageSpec  one backup_mailbox call against a remote listing           *)
(*    TaskSpec  one Celery task and the status requests about it           *)
(*    TenantSpec one backup_tenant call over the users of a tenant         *)
(*    RunSpec   one multi-tenant run over two tenants                      *)
(*    StreamSpec one Celery task and one status stream about it            *)
(*    WorkerSpec one Celery task under a fair worker                       *)
(*    PageLiveSpec one backup_mailbox call that keeps running              *)
(***************************************************************************)
EXTENDS Integers, Sequences, FiniteSets, TLC

VARIABLES
    snapshots,   \* committed rows of snapshots_table
    messages,    \* committed rows of messages_table
    snapSeq,     \* last value of the snapshots.id sequence
    msgSeq,      \* last value of the messages.id sequence
    tx,          \* per worker: the store_snapshot call in progress / its outcome
    calls,       \* number of store_snapshot calls started so far
    firstSeen,   \* history: hash -> id of the first committed snapshot whose batch held it
    tenants,     \* committed rows of tenants_table
    tenantSeq,   \* last value of the tenants.id sequence
    mb,          \* the backup_mailbox call in progress
    bt,          \* the backup_tenant call in progress (TenantSpec, RunSpec)
    run,         \* the multi-tenant run in progress (RunSpec)
    task,        \* one Celery task: its execution and its entry in the result backend (TaskSpec)
    poll,        \* one get_backup_status request in progress (TaskSpec)
    stream       \* one stream_backup_status response in progress (StreamSpec)

dbVars == <<snapshots, messages, snapSeq, msgSeq, tx, calls, firstSeen>>
tenantVars == <<tenants, tenantSeq>>
appVars == <<bt, run, task, poll, stream>>
vars == <<snapshots, messages, snapSeq, msgSeq, tx, calls, firstSeen,
          tenants, tenantSeq, mb, bt, run, task, poll, stream>>

----------------------------------------------------------------------------
(* Bounds *)

MaxBatch == 2          \* longest batch handed to store_snapshot
MaxCalls == 2          \* store_snapshot calls per behaviour
MaxSmall == 4          \* small quotas 1..MaxSmall, small listings 0..MaxSmall+2
MaxOver == 2           \* quotas up to PageSizeDefault+MaxOver, listings one longer

Workers == {"w1", "w2"}

----------------------------------------------------------------------------
(* Message payloads and compute_hash (db.py) *)

\* A message payload is the JSON object of the list response: its members
\* in the order they arrive, each a <<key, value>> pair, no key twice.
\* json.dumps renders a missing field (message.get(k) is None) as null and a
\* string s as "s": the two never coincide, not even for s = "" or s = "null".
Null == "null"
Quote(s) == "\"" \o s \o "\""

IdKeys == {"subject", "from", "to", "cc", "bcc", "receivedDateTime"}

\* message.get(k), as json.dumps renders it
Field(message, k) ==
    IF \E i \in 1..Len(message) : message[i][1] = k
    THEN Quote(message[CHOOSE i \in 1..Len(message) : message[i][1] = k][2])
    ELSE Null

\* Variant of compute_hash: the digest of the whole payload as received.
compute_hash_payload(message) == message

\* Variant of compute_hash: `message.get(k) or None`, an empty value counts as missing.
compute_hash_falsy(message) ==
    [k \in IdKeys |-> IF Field(message, k) = Quote("") THEN Null ELSE Field(message, k)]

\* rep = {k: message.get(k) for k in keys}; json.dumps(rep, sort_keys=True):
\* one member per key of keys, whatever the payload holds and in whatever
\* order.  sha256 is taken to be injective on the serialisation, so the digest
\* is modelled by the serialised object itself.
compute_hash(message) == [k \in IdKeys |-> Field(message, k)]

Invoice ==
    << <<"subject", "Invoice">>, <<"from", "a@x.com">>,
       <<"receivedDateTime", "2024-01-01T00:00:00Z">> >>
\* the same six fields in another order, one peripheral field more
InvoiceTagged ==
    << <<"categories", "red">>, <<"receivedDateTime", "2024-01-01T00:00:00Z">>,
       <<"from", "a@x.com">>, <<"subject", "Invoice">> >>
\* cc present and empty instead of absent
InvoiceEmptyCc ==
    << <<"subject", "Invoice">>, <<"from", "a@x.com">>,
       <<"receivedDateTime", "2024-01-01T00:00:00Z">>, <<"cc", "">> >>

\* What backup_mailbox appends to collected (main.py 143-148).
Item(t, u, m, j) == [tenant |-> t, user_principal |-> u, message_id |-> m, message_json |-> j]

Items ==
    { Item("t1", "u1", "m1", Invoice),
      Item("t1", "u1", "m3", InvoiceEmptyCc),
      Item("t2", "u2", "m2", InvoiceTagged),
      Item("t2", "u2", "m4", InvoiceEmptyCc) }

\* Spec: each worker persists the collection of one tenant (backup_tenant_async,
\* trigger_tenant_backup, one run of snapshot_job); both tenants hold the same
\* two contents.  w1 passes no label (the CLI without SNAPSHOT_LABEL), w2 the
\* label of snapshot_job.
TenantOf(p) == IF p = "w1" THEN "t1" ELSE "t2"
WorkerItems(p) == { it \in Items : it.tenant = TenantOf(p) }
WorkerLabel(p) == IF p = "w1" THEN "<null>" ELSE "scheduled"

\* SeqSpec: one caller persists batches that mix tenants (backup_all_tenants_async,
\* trigger_backup).
SeqItems == { it \in Items : it.message_id # "m4" }

RECURSIVE SeqsUpTo(_, _)
SeqsUpTo(S, n) ==
    IF n = 0 THEN { <<>> }
    ELSE LET shorter == SeqsUpTo(S, n - 1)
         IN  shorter \cup { Append(s, x) : s \in { t \in shorter : Len(t) = n - 1 }, x \in S }

Batches(items) == SeqsUpTo(items, MaxBatch)

NoLabel == "<null>"
Labels == { NoLabel, "scheduled" }

Hashes == { compute_hash(it.message_json) : it \in Items }
HashesOf(batch) == { compute_hash(batch[k].message_json) : k \in 1..Len(batch) }

----------------------------------------------------------------------------
(* store_snapshot (db.py 91-149) *)

\* prev (history, SeqSpec): whether the caller's previous call returned and was
\* handed the same batch, and what that call found and returned.
NoPrev == [same |-> FALSE, inserted |-> 0, storedAtStart |-> {}]

Idle == [pc |-> "idle", label |-> NoLabel, batch |-> <<>>, hashes |-> {}, i |-> 0, sid |-> 0,
         inserted |-> 0, pending |-> {}, storedAtStart |-> {}, prev |-> NoPrev]

\* The record of a call that is over: its outcome and what it returned; the
\* batch is kept for the caller's next call only where calls follow each other
\* (seq), otherwise it is reduced to the hashes it held.
Over(t, outcome, seq) ==
    [t EXCEPT !.pc = outcome, !.pending = {}, !.i = 0,
              !.batch = IF seq THEN @ ELSE <<>>]

\* Variant of NewRow: the row id is passed where the snapshot id belongs.
NewRowSwappedIds(id, snapshot_id, item, mhash) ==
    [id |-> id, snapshot_id |-> id, tenant |-> item.tenant,
     user_principal |-> item.user_principal, message_id |-> item.message_id,
     message_hash |-> mhash, raw_json |-> item.message_json]

\* messages_table.insert().values(...) of db.py 126-144; the columns fed from
\* text_content, which backup_mailbox never sets, take their defaults and are left out.
NewRow(id, snapshot_id, item, mhash) ==
    [id |-> id, snapshot_id |-> snapshot_id, tenant |-> item.tenant,
     user_principal |-> item.user_principal, message_id |-> item.message_id,
     message_hash |-> mhash, raw_json |-> item.message_json]

\* What the SELECT of worker p sees under READ COMMITTED: every committed row
\* and the rows of its own transaction.
Visible(p) == messages \cup tx[p].pending

CurHash(p) == compute_hash(tx[p].batch[tx[p].i].message_json)

\* Position after the item at i has been dealt with: the next item or the commit.
Advance(t) ==
    IF t.i < Len(t.batch) THEN [t EXCEPT !.i = t.i + 1, !.pc = "check"]
    ELSE [t EXCEPT !.pc = "commit"]

\* db.py 96-103: open the session, insert the snapshot row (uncommitted).
Begin(p, label, batch, seq) ==
    /\ tx[p].pc \in {"idle", "returned", "raised", "aborted"}
    /\ calls < MaxCalls
    /\ calls' = calls + 1
    /\ snapSeq' = snapSeq + 1
    /\ tx' = [tx EXCEPT ![p] =
                [pc |-> IF Len(batch) = 0 THEN "commit" ELSE "check",
                 label |-> label, batch |-> batch, hashes |-> HashesOf(batch),
                 i |-> IF Len(batch) = 0 THEN 0 ELSE 1,
                 sid |-> snapSeq + 1, inserted |-> 0, pending |-> {},
                 storedAtStart |-> { r.message_hash : r \in messages },
                 prev |-> IF seq /\ tx[p].pc = "returned" /\ tx[p].batch = batch
                          THEN [same |-> TRUE, inserted |-> tx[p].inserted,
                                storedAtStart |-> tx[p].storedAtStart]
                          ELSE NoPrev]]
    /\ UNCHANGED <<snapshots, messages, msgSeq, firstSeen>>

\* Variant of Skip: the skipped item is counted.
SkipCounted(t) == Advance([t EXCEPT !.inserted = @ + 1])

\* db.py 111-112: `continue`: the item is left out and not counted.
Skip(t) == Advance(t)

\* db.py 105-112: compute the hash, SELECT by hash, skip the item when a row is found.
Check(p) ==
    /\ tx[p].pc = "check"
    /\ tx' = [tx EXCEPT ![p] =
                IF \E r \in Visible(p) : r.message_hash = CurHash(p)
                THEN Skip(tx[p])
                ELSE [tx[p] EXCEPT !.pc = "insert"]]
    /\ UNCHANGED <<snapshots, messages, snapSeq, msgSeq, calls, firstSeen>>

\* The INSERT waits while another open transaction holds an uncommitted row
\* with the same message_hash (uq_message_hash, db.py 61).
Holders(p) ==
    { q \in Workers \ {p} : \E r \in tx[q].pending : r.message_hash = CurHash(p) }

Waiting(p) == tx[p].pc = "insert" /\ Holders(p) # {}

\* Variant of UniqueViolated: the table has no uniqueness constraint.
NoConstraint(p) == FALSE

\* uq_message_hash (db.py 61): the INSERT fails when a committed row, or a row
\* of the same transaction, carries the hash.
UniqueViolated(p) == \E r \in messages \cup tx[p].pending : r.message_hash = CurHash(p)

\* Variant of Inserted: the counter is not advanced.
InsertedUncounted(t, row) == [t EXCEPT !.pending = @ \cup {row}]

\* db.py 126-145: the row joins the transaction and inserted += 1.
Inserted(t, row) == [t EXCEPT !.pending = @ \cup {row}, !.inserted = @ + 1]

\* db.py 126-145: the INSERT succeeds, the row stays uncommitted.
InsertRow(p) ==
    /\ tx[p].pc = "insert"
    /\ ~ UniqueViolated(p)
    /\ Holders(p) = {}
    /\ msgSeq' = msgSeq + 1
    /\ tx' = [tx EXCEPT ![p] =
                Advance(Inserted(tx[p], NewRow(msgSeq + 1, tx[p].sid,
                                               tx[p].batch[tx[p].i], CurHash(p))))]
    /\ UNCHANGED <<snapshots, messages, snapSeq, calls, firstSeen>>

\* Variant of RolledBack: the rows were autocommitted statement by statement.
RolledBackLeaking(p) == messages \cup tx[p].pending

\* db.py 148-149: session.close() on an uncommitted transaction discards its
\* rows; the committed rows are what they were.
RolledBack(p) == messages

\* What store_snapshot does with the IntegrityError of the INSERT: db.py has
\* no except clause, so the finally block closes the session (rollback) and
\* the error leaves store_snapshot.
OnUniqueViolation(t, seq) == Over(t, "raised", seq)

\* db.py 126-144 when a committed row already carries the hash (it was
\* committed by another worker after this worker's SELECT).
InsertConflict(p, seq) ==
    /\ tx[p].pc = "insert"
    /\ UniqueViolated(p)
    /\ msgSeq' = msgSeq + 1
    /\ messages' = RolledBack(p)
    /\ tx' = [tx EXCEPT ![p] = OnUniqueViolation(tx[p], seq)]
    /\ UNCHANGED <<snapshots, snapSeq, calls, firstSeen>>

\* Two workers each waiting for a row the other holds: the storage engine
\* breaks the deadlock by failing one INSERT, which store_snapshot lets escape.
InsertDeadlock(p, seq) ==
    /\ Waiting(p)
    /\ \E q \in Holders(p) : Waiting(q) /\ p \in Holders(q)
    /\ messages' = RolledBack(p)
    /\ tx' = [tx EXCEPT ![p] = OnUniqueViolation(tx[p], seq)]
    /\ UNCHANGED <<snapshots, snapSeq, msgSeq, calls, firstSeen>>

NoteFirstSeen(fs, hs, sid) == [h \in Hashes |-> IF fs[h] = 0 /\ h \in hs THEN sid ELSE fs[h]]

\* The rows a commit leaves in messages_table.
CommitRows(committed, pending) == committed \cup pending

\* Variant of CommitSnapshots: no snapshot row for a run that inserted nothing.
CommitSnapshotsIfNew(committed, t) ==
    IF t.inserted = 0 THEN committed ELSE committed \cup { [id |-> t.sid, label |-> t.label] }

\* db.py 101, 146: the snapshot row of the call, inserted first and committed
\* whatever the loop inserted.
CommitSnapshots(committed, t) == committed \cup { [id |-> t.sid, label |-> t.label] }

\* db.py 146-147: session.commit() publishes the snapshot row and the message
\* rows in one step; the call returns (snapshot_id, inserted).
Commit(p, seq) ==
    /\ tx[p].pc = "commit"
    /\ snapshots' = CommitSnapshots(snapshots, tx[p])
    /\ messages' = CommitRows(messages, tx[p].pending)
    /\ firstSeen' = NoteFirstSeen(firstSeen, tx[p].hashes, tx[p].sid)
    /\ tx' = [tx EXCEPT ![p] = Over(@, "returned", seq)]
    /\ UNCHANGED <<snapSeq, msgSeq, calls>>

\* db.py 148-149: the call fails (storage error) or is abandoned (worker
\* stopped) before session.commit(): session.close() rolls the transaction back.
Abandon(p, seq) ==
    /\ tx[p].pc \in {"check", "insert", "commit"}
    /\ messages' = RolledBack(p)
    /\ tx' = [tx EXCEPT ![p] = Over(@, "aborted", seq)]
    /\ UNCHANGED <<snapshots, snapSeq, msgSeq, calls, firstSeen>>

\* SELECT ... WHERE message_hash = h over the committed rows (db.py 108-110)
RowsWithHash(h) == { r \in messages : r.message_hash = h }

----------------------------------------------------------------------------
(* Readers (db.py 152-173, 290-313): they return rows and change nothing *)

list_snapshots == snapshots
get_snapshot_messages(snapshot_id) == { r \in messages : r.snapshot_id = snapshot_id }
get_message_by_id(message_id) == { r \in messages : r.id = message_id }

ListSnapshots ==
    /\ list_snapshots \subseteq snapshots
    /\ UNCHANGED vars

GetSnapshotMessages ==
    /\ \E sid \in 1..snapSeq : get_snapshot_messages(sid) \subseteq messages
    /\ UNCHANGED vars

GetMessageById ==
    /\ \E id \in 1..msgSeq : Cardinality(get_message_by_id(id)) <= 1
    /\ UNCHANGED vars

----------------------------------------------------------------------------
(* Tenant registry (db.py 177-271) *)

TenantIds == {"tid-a", "tid-b"}
TenantNames == {"t1", "t2"}

\* db.py 177-197: INSERT INTO tenants; uq_tenant_id (db.py 75) rejects a second
\* row with the same tenant_id, active or not, and the error is re-raised after
\* the rollback.  Ids are opaque: the gaps a failed INSERT leaves are not modelled.
create_tenant(name, tenant_id) ==
    /\ ~ \E t \in tenants : t.tenant_id = tenant_id
    /\ tenantSeq' = tenantSeq + 1
    /\ tenants' = tenants \cup { [id |-> tenantSeq + 1, name |-> name,
                                  tenant_id |-> tenant_id, is_active |-> 1] }
    /\ UNCHANGED <<dbVars, mb, appVars>>

\* db.py 229-255: UPDATE tenants SET name, tenant_id WHERE id; a tenant_id that
\* another row holds violates uq_tenant_id and nothing changes.
update_tenant(id, name, tenant_id) ==
    /\ \E t \in tenants : t.id = id
    /\ ~ \E t \in tenants : t.id # id /\ t.tenant_id = tenant_id
    /\ tenants' = { IF t.id = id THEN [t EXCEPT !.name = name, !.tenant_id = tenant_id]
                                 ELSE t : t \in tenants }
    /\ UNCHANGED <<dbVars, tenantSeq, mb, appVars>>

\* Variant of delete_tenant: a hard delete that takes the tenant's messages along.
delete_tenant_cascade(id) ==
    /\ \E t \in tenants : t.id = id
    /\ tenants' = { t \in tenants : t.id # id }
    /\ messages' = { r \in messages : ~ \E t \in tenants : t.id = id /\ t.name = r.tenant }
    /\ UNCHANGED <<snapshots, snapSeq, msgSeq, tx, calls, firstSeen, tenantSeq, mb, appVars>>

\* db.py 258-271: soft delete.
delete_tenant(id) ==
    /\ \E t \in tenants : t.id = id
    /\ tenants' = { IF t.id = id THEN [t EXCEPT !.is_active = 0] ELSE t : t \in tenants }
    /\ UNCHANGED <<dbVars, tenantSeq, mb, appVars>>

CreateTenant == \E name \in TenantNames, tid \in TenantIds : create_tenant(name, tid)
UpdateTenant ==
    \E id \in 1..tenantSeq, name \in TenantNames, tid \in TenantIds : update_tenant(id, name, tid)
DeleteTenant == \E id \in 1..tenantSeq : delete_tenant(id)

\* db.py 200-210: SELECT ... WHERE is_active = 1
list_tenants == { t \in tenants : t.is_active = 1 }

\* db.py 213-226: SELECT ... WHERE id = tenant_db_id, whatever is_active is;
\* the empty set stands for None.
get_tenant(tenant_db_id) == { t \in tenants : t.id = tenant_db_id }

\* db.py 274-287: the credentials of the tenants list_tenants returns.
get_tenants_for_backup ==
    { [name |-> t.name, tenant_id |-> t.tenant_id] : t \in list_tenants }

\* web.py 204-222, 301-320: trigger_tenant_backup and
\* trigger_async_tenant_backup answer "Tenant not found" when get_tenant
\* returns None, and otherwise call backup_tenant, or submit
\* backup_tenant_async, with the row's credentials.
StartsCollection(tenant_id) == get_tenant(tenant_id) # {}

\* A per-tenant trigger is requested for a tenant it starts a collection for.
TriggerTenant ==
    /\ \E id \in 1..tenantSeq : StartsCollection(id)
    /\ UNCHANGED vars

----------------------------------------------------------------------------
(* backup_mailbox (main.py 105-168) and the remote message listing *)

PageSizeDefault == 100

Min(a, b) == IF a <= b THEN a ELSE b
Max(a, b) == IF a >= b THEN a ELSE b

\* A list URL: the position the listing resumes at and the $top it asks for.
\* The initial URL and any URL backup_mailbox builds itself carry no
\* continuation, so they address the head of the listing (skip = 0); a
\* server-supplied @odata.nextLink carries the position and repeats $top.
NoUrl == [open |-> FALSE, skip |-> 0, top |-> 0]
Url(skip, top) == [open |-> TRUE, skip |-> skip, top |-> top]

\* The remote listing of M messages, numbered 1..M in listing order, served in
\* pages of at most S: the number of items a request for (skip, top) gets.
PageLen(skip, top, M, S) == Max(0, Min(Min(top, S), M - skip))

\* data.get("@odata.nextLink"): present while items remain after the page.
NextLink(skip, top, M, S) ==
    IF skip + PageLen(skip, top, M, S) < M
    THEN Url(skip + PageLen(skip, top, M, S), top)
    ELSE NoUrl

\* main.py 110-111: page_size = 100 if remaining is None or remaining > 100 else remaining
InitialPageSize(bounded, K) ==
    IF ~ bounded \/ K > PageSizeDefault THEN PageSizeDefault ELSE K

\* main.py 123-156: how many messages of a page of n the for loop handles.  The
\* quota test sits inside `if download_attachments:`; it ends the loop, and
\* clears url, as soon as downloaded >= mails_per_user.
Taken(n, bounded, K, da, downloaded) ==
    IF da /\ bounded /\ n > 0 THEN Min(n, Max(1, K - downloaded)) ELSE n

Broke(n, bounded, K, da, downloaded) ==
    da /\ bounded /\ n > 0 /\ downloaded + Taken(n, bounded, K, da, downloaded) >= K

\* Variant of NextUrl: the `left <= 0` test is missing.
NextUrlNoStop(link, bounded, K, downloaded, page_size) ==
    IF ~ link.open \/ ~ bounded THEN link
    ELSE IF K - downloaded < page_size THEN Url(0, K - downloaded)
    ELSE link

\* Variant of NextUrl: the continuation is followed as it is, its page size
\* never reduced to what is left of the quota.
NextUrlNoRewrite(link, bounded, K, downloaded, page_size) ==
    IF ~ link.open \/ ~ bounded THEN link
    ELSE IF K - downloaded <= 0 THEN NoUrl
    ELSE link

\* Variant of NextUrl: the continuation of the response is not followed.
NextUrlFirstPageOnly(link, bounded, K, downloaded, page_size) == NoUrl

\* main.py 157-165: the URL of the next request, from the response's nextLink.
NextUrl(link, bounded, K, downloaded, page_size) ==
    IF ~ link.open \/ ~ bounded THEN link
    ELSE IF K - downloaded <= 0 THEN NoUrl
    ELSE IF K - downloaded < page_size THEN Url(0, K - downloaded)
    ELSE link

\* main.py 110-115: the state on entering the while loop.
StartMailbox(bounded, K, da, M, S) ==
    [pc |-> "loop", bounded |-> bounded, K |-> K, da |-> da, M |-> M, S |-> S,
     page_size |-> InitialPageSize(bounded, K),
     url |-> Url(0, InitialPageSize(bounded, K)),
     downloaded |-> 0, collected |-> <<>>, requests |-> <<>>, allOk |-> TRUE,
     fault |-> "none", listed |-> 0, mime |-> "ok", att |-> "ok"]

MbIdle == [pc |-> "off"]

\* items skip+1 .. skip+k appended in listing order (main.py 143-148)
Collect(collected, skip, k) == collected \o [j \in 1..k |-> skip + j]

\* history: the list request being issued, and how many messages were
\* collected when it was issued
Issue(m) == Append(m.requests, [skip |-> m.url.skip, top |-> m.url.top, had |-> m.downloaded])

\* The side fetches of the k messages handled on a page.  main.py 129-140:
\* the raw-MIME request answers 200, answers another status (logged), or raises
\* (caught and logged).  main.py 151-153, 81-84: the attachment request, made
\* when download_attachments is set, answers 200 or another status (logged).
MimeOutcomes(k) == IF k > 0 THEN {"ok", "status", "raised"} ELSE {"ok"}
AttachOutcomes(k, da) == IF k > 0 /\ da THEN {"ok", "status"} ELSE {"ok"}

\* history: the latest side fetch of each kind that did not succeed
Noted(old, outcome) == IF outcome = "ok" THEN old ELSE outcome

\* main.py 117-165: one iteration of `while url` with a 200 response and no
\* uncaught error: every message of the page is written, its MIME fetched,
\* the message collected, its attachments fetched.
FetchPage ==
    /\ mb.pc = "loop"
    /\ LET n == PageLen(mb.url.skip, mb.url.top, mb.M, mb.S)
           k == Taken(n, mb.bounded, mb.K, mb.da, mb.downloaded)
           next == IF Broke(n, mb.bounded, mb.K, mb.da, mb.downloaded)
                   THEN NoUrl
                   ELSE NextUrl(NextLink(mb.url.skip, mb.url.top, mb.M, mb.S),
                                mb.bounded, mb.K, mb.downloaded + k, mb.page_size)
       IN  \E mime \in MimeOutcomes(k), att \in AttachOutcomes(k, mb.da) :
              mb' = [mb EXCEPT !.requests = Issue(mb),
                               !.collected = Collect(@, mb.url.skip, k),
                               !.downloaded = @ + k,
                               !.listed = @ + n,
                               !.mime = Noted(@, mime),
                               !.att = Noted(@, att),
                               !.url = next,
                               !.pc = IF next.open THEN "loop" ELSE "done"]
    /\ UNCHANGED <<dbVars, tenantVars, appVars>>

\* Variant of ListFails: the failed request is issued again.
ListFailsRetrying ==
    /\ mb.pc = "loop"
    /\ mb' = [mb EXCEPT !.requests = Issue(mb), !.allOk = FALSE, !.fault = "list-status"]
    /\ UNCHANGED <<dbVars, tenantVars, appVars>>

\* main.py 118-121: a non-200 response ends the loop; collected is returned.
ListFails ==
    /\ mb.pc = "loop"
    /\ mb' = [mb EXCEPT !.requests = Issue(mb), !.allOk = FALSE, !.fault = "list-status",
                        !.pc = "done"]
    /\ UNCHANGED <<dbVars, tenantVars, appVars>>

\* main.py 118: requests.get raises (a timeout, a connection error); nothing
\* in backup_mailbox catches it.
ListRaises ==
    /\ mb.pc = "loop"
    /\ mb' = [mb EXCEPT !.requests = Issue(mb), !.allOk = FALSE, !.fault = "list-raised",
                        !.pc = "raised"]
    /\ UNCHANGED <<dbVars, tenantVars, appVars>>

\* main.py 151-153, 77-81: the attachment request of the k-th message of the
\* page raises, after the message was collected; the error leaves backup_mailbox.
AttachRaises ==
    /\ mb.pc = "loop"
    /\ mb.da
    /\ LET n == PageLen(mb.url.skip, mb.url.top, mb.M, mb.S)
       IN  \E k \in 1..Taken(n, mb.bounded, mb.K, mb.da, mb.downloaded) :
           \E mime \in MimeOutcomes(k) :
              mb' = [mb EXCEPT !.requests = Issue(mb),
                               !.collected = Collect(@, mb.url.skip, k),
                               !.downloaded = @ + k,
                               !.listed = @ + n,
                               !.mime = Noted(@, mime),
                               !.allOk = FALSE,
                               !.fault = "attach-raised",
                               !.pc = "raised"]
    /\ UNCHANGED <<dbVars, tenantVars, appVars>>

\* mails_per_user = None, which K = 0 stands for: a bounded quota below 1 does
\* not occur, Graph rejects $top=0.
Unbounded == 0

Quotas == (1..MaxSmall) \cup ((PageSizeDefault - 1)..(PageSizeDefault + MaxOver))
Listings == (0..(MaxSmall + 2)) \cup ((PageSizeDefault - 1)..(PageSizeDefault + MaxOver + 1))
ServerPageSizes == {1, 2, 3, 60, PageSizeDefault, 10 * PageSizeDefault}

----------------------------------------------------------------------------
(* backup_tenant (main.py 170-218) and the tenant's remote directory *)

\* Message j of user u of tenant t as backup_mailbox collects it (main.py
\* 143-148): the mailboxes hold the payloads above, so that tenants and users
\* share contents.
RemoteMessage(t, u, j) ==
    Item(t, u, u \o "-" \o ToString(j),
         IF j % 2 = 0 THEN InvoiceEmptyCc ELSE IF t = "t1" THEN Invoice ELSE InvoiceTagged)

\* The collected list of a backup_mailbox call, listing positions turned into messages.
Collected(t, u, positions) == [i \in 1..Len(positions) |-> RemoteMessage(t, u, positions[i])]

\* A user of the directory: whether the Inbox probe answers 200 (has_mailbox,
\* main.py 70-74) and how many messages the mailbox lists.
User(name, mailbox, M) == [name |-> name, mailbox |-> mailbox, M |-> M]

NoAttempt == [status |-> "none", got |-> <<>>, fault |-> "none"]

\* main.py 170-179: the call as entered.  auth is what the credentials lead to
\* ("ok", "no-credentials", "token-fails"); dir is the remote directory, served
\* in pages of P users; S is the page size of the message listings.  attempts
\* (history): per user, how its backup_mailbox call ended and what it had collected.
StartTenant(tenant, auth, K, da, dir, P, S) ==
    [pc |-> "token", tenant |-> tenant, auth |-> auth, K |-> K, da |-> da,
     dir |-> dir, P |-> P, S |-> S,
     users |-> 0, u |-> 0, collected_all |-> <<>>, result |-> <<>>, fault |-> "none",
     attempts |-> [i \in 1..Len(dir) |-> NoAttempt]]

\* `return []` / `return collected_all`
Returned(b, result) == [b EXCEPT !.pc = "returned", !.result = result]

\* main.py 207: the next user of the enumeration, or the end of the loop (218).
NextUser(b) ==
    IF b.u < b.users THEN [b EXCEPT !.u = @ + 1, !.pc = "probe"]
    ELSE Returned(b, b.collected_all)

\* main.py 175-186: missing credentials, or a token acquisition that raises
\* (caught, logged), end the call with an empty list.
BtToken ==
    /\ bt.pc = "token"
    /\ bt' = IF bt.auth = "ok" THEN [bt EXCEPT !.pc = "list"]
             ELSE Returned([bt EXCEPT !.fault = bt.auth], <<>>)
    /\ UNCHANGED <<dbVars, tenantVars, mb, run, task, poll, stream>>

\* Variant of BtListUsers: a non-200 answer ends the enumeration and the
\* users received so far are backed up.
BtListUsersPartial ==
    /\ bt.pc = "list"
    /\ \E outcome \in {"ok", "status", "raises"} :
          bt' = CASE outcome = "status" -> NextUser([bt EXCEPT !.fault = "users-status"])
                  [] outcome = "raises" -> [bt EXCEPT !.pc = "raised", !.fault = "users-raised"]
                  [] outcome = "ok" ->
                       LET got == Min(Len(bt.dir), bt.users + bt.P)
                       IN  IF got < Len(bt.dir) THEN [bt EXCEPT !.users = got]
                           ELSE NextUser([bt EXCEPT !.users = got])
    /\ UNCHANGED <<dbVars, tenantVars, mb, run, task, poll, stream>>

\* main.py 196-203: one page of the user enumeration.  A non-200 answer ends
\* the call with an empty list; a request that raises leaves backup_tenant.
BtListUsers ==
    /\ bt.pc = "list"
    /\ \E outcome \in {"ok", "status", "raises"} :
          bt' = CASE outcome = "status" -> Returned([bt EXCEPT !.fault = "users-status"], <<>>)
                  [] outcome = "raises" -> [bt EXCEPT !.pc = "raised", !.fault = "users-raised"]
                  [] outcome = "ok" ->
                       LET got == Min(Len(bt.dir), bt.users + bt.P)
                       IN  IF got < Len(bt.dir) THEN [bt EXCEPT !.users = got]
                           ELSE NextUser([bt EXCEPT !.users = got])
    /\ UNCHANGED <<dbVars, tenantVars, mb, run, task, poll, stream>>

\* main.py 208-216: the Inbox probe of user u.  It is outside the try: a probe
\* that raises leaves backup_tenant.  A user with a mailbox gets a
\* backup_mailbox call, the others are skipped.
BtProbe ==
    /\ bt.pc = "probe"
    /\ \E raises \in BOOLEAN :
          IF raises
          THEN bt' = [bt EXCEPT !.pc = "raised", !.fault = "probe-raised"] /\ mb' = mb
          ELSE IF bt.dir[bt.u].mailbox
               THEN /\ bt' = [bt EXCEPT !.pc = "mailbox"]
                    /\ mb' = StartMailbox(bt.K # Unbounded, bt.K, bt.da, bt.dir[bt.u].M, bt.S)
               ELSE /\ bt' = NextUser([bt EXCEPT !.attempts[bt.u].status = "no-mailbox"])
                    /\ mb' = mb
    /\ UNCHANGED <<dbVars, tenantVars, run, task, poll, stream>>

\* Variant of MailboxOutcome: backup_mailbox is called outside any try, its
\* error leaves backup_tenant.
MailboxOutcomeUncaught(b, m) ==
    IF m.pc = "raised"
    THEN [b EXCEPT !.pc = "raised", !.fault = "mailbox-raised",
                   !.attempts[b.u] = [status |-> "raised", got |-> m.collected, fault |-> m.fault]]
    ELSE NextUser([b EXCEPT
             !.collected_all = @ \o Collected(b.tenant, b.dir[b.u].name, m.collected),
             !.attempts[b.u] = [status |-> "returned", got |-> m.collected, fault |-> m.fault]])

\* main.py 209-214: `msgs = backup_mailbox(...)` inside try/except.  A call
\* that returns hands over its list, which is appended; a call that raises
\* hands over nothing (msgs is never bound), the error is logged.
MailboxOutcome(b, m) ==
    IF m.pc = "raised"
    THEN NextUser([b EXCEPT
             !.attempts[b.u] = [status |-> "raised", got |-> m.collected, fault |-> m.fault]])
    ELSE NextUser([b EXCEPT
             !.collected_all = @ \o Collected(b.tenant, b.dir[b.u].name, m.collected),
             !.attempts[b.u] = [status |-> "returned", got |-> m.collected, fault |-> m.fault]])

\* The backup_mailbox call of user u is over.
BtMailboxOver ==
    /\ bt.pc = "mailbox"
    /\ mb.pc \in {"done", "raised"}
    /\ bt' = MailboxOutcome(bt, mb)
    /\ mb' = MbIdle
    /\ UNCHANGED <<dbVars, tenantVars, run, task, poll, stream>>

\* The directories, quotas and page sizes backup_tenant is run against.
TenantDirectories ==
    { <<>> } \cup
    { << User("u1", m1 > 0, m1), User("u2", m2 > 0, m2), User("u3", m3 > 0, m3) >> :
         m1 \in 0..2, m2 \in 0..2, m3 \in 0..2 }
TenantQuotas == {1, 2, Unbounded}
TenantPageSizes == {1, 2}
UserPageSizes == {2}

----------------------------------------------------------------------------
(* Celery tasks (tasks.py) and their entries in the result backend *)

TaskKinds == {"backup_tenant_async", "backup_all_tenants_async", "index_messages_async"}

\* retry_kwargs={'max_retries': 3} of backup_tenant_async
MaxRetries == 3

\* An entry of the result backend: the state and what is stored with it
\* (kind: nothing, the worker's pid/hostname, a meta dictionary, an exception,
\* a task's return value).
Meta(state, kind, stage, progress, text) ==
    [state |-> state, kind |-> kind, stage |-> stage, progress |-> progress, text |-> text]

\* no entry yet: AsyncResult reports PENDING
Pending == Meta("PENDING", "none", "", 0, "")
\* task_track_started=True (tasks.py 32): the worker records the start of every attempt
Started == Meta("STARTED", "started", "", 0, "")
\* self.update_state(state='PROGRESS', meta={'stage':, 'progress':, 'message':})
Progress(stage, progress) == Meta("PROGRESS", "meta", stage, progress, "")
\* self.update_state(state='FAILURE', meta={'stage': 'failed', 'progress': 0, 'error': str(exc)})
FailureMeta(error) == Meta("FAILURE", "meta", "failed", 0, error)
\* what the worker stores when the task function raises: RETRY with the
\* exception when the call is retried, FAILURE with the exception otherwise
Retrying(exc) == Meta("RETRY", "exception", "", 0, exc)
Failed(exc) == Meta("FAILURE", "exception", "", 0, exc)
\* what the worker stores when the task function returns
Succeeded(result) == Meta("SUCCESS", "result", "", 0, result)

\* errors that reach the except clause of a task function
CollectionError == "collection failed"
NoDatabaseOperations == "module 'm365_backup.db' has no attribute 'DatabaseOperations'"
IndexSetupError == "index setup failed"

\* The task as submitted (.delay): queued, nothing stored.
Submitted(kind) ==
    [kind |-> kind, pc |-> "queued", retries |-> 0, stored |-> Pending,
     collected |-> FALSE, exc |-> "", result |-> "",
     raisedEver |-> FALSE, lastRaised |-> FALSE, firstExc |-> "",
     lastProgress |-> 0]

\* History kept with a status request: a write to the task's entry happened
\* since the request began.
Touched(p) == IF p.pc = "off" THEN p ELSE [p EXCEPT !.touchedCur = TRUE]

\* One write to the result backend.  History: lastProgress is the progress
\* value of the latest PROGRESS entry written for the task (0 before any).
Store(t, meta) ==
    [t EXCEPT !.stored = meta,
              !.lastProgress = IF meta.state = "PROGRESS" THEN meta.progress ELSE @]

\* An error reaches the except clause of the task function.
Caught(t, exc) ==
    [t EXCEPT !.pc = "except", !.exc = exc, !.raisedEver = TRUE, !.lastRaised = TRUE,
              !.firstExc = IF t.raisedEver THEN @ ELSE exc]

FirstLine(kind) ==
    CASE kind = "backup_tenant_async" -> "l60"
      [] kind = "backup_all_tenants_async" -> "l128"
      [] kind = "index_messages_async" -> "l229"

\* A worker takes the task (or its retry) from the queue and records STARTED.
TaskStart ==
    /\ task.pc = "queued"
    /\ task' = [Store(task, Started) EXCEPT !.pc = FirstLine(task.kind), !.lastRaised = FALSE,
                                            !.collected = FALSE]
    /\ poll' = Touched(poll)
    /\ UNCHANGED <<dbVars, tenantVars, mb, bt, run, stream>>

\* tasks.py 60-63
TenantAuthenticating ==
    /\ task.pc = "l60"
    /\ task' = [Store(task, Progress("authenticating", 10)) EXCEPT !.pc = "l66"]
    /\ poll' = Touched(poll)
    /\ UNCHANGED <<dbVars, tenantVars, mb, bt, run, stream>>

\* tasks.py 66: main.backup_tenant returns a list, empty or not, or raises
\* (a request of the user enumeration or a mailbox probe that raises is not
\* caught inside backup_tenant).
TenantCollect ==
    /\ task.pc = "l66"
    /\ \E outcome \in {"raises", "empty", "some"} :
          task' = IF outcome = "raises" THEN Caught(task, CollectionError)
                  ELSE [task EXCEPT !.pc = "l68", !.collected = (outcome = "some")]
    /\ UNCHANGED <<dbVars, tenantVars, mb, bt, run, poll, stream>>

\* tasks.py 68-73, 95-103: with nothing collected the function returns its
\* 'No messages found to backup' result.
TenantStoring ==
    /\ task.pc = "l68"
    /\ task' = [Store(task, Progress("storing", 80)) EXCEPT
                   !.pc = IF task.collected THEN "l75" ELSE "return",
                   !.result = IF task.collected THEN @ ELSE "No messages found to backup"]
    /\ poll' = Touched(poll)
    /\ UNCHANGED <<dbVars, tenantVars, mb, bt, run, stream>>

\* tasks.py 75: db.DatabaseOperations() -- db.py defines no such name, the
\* attribute lookup raises AttributeError; lines 76-94 are never reached.
TenantPersist ==
    /\ task.pc = "l75"
    /\ task' = Caught(task, NoDatabaseOperations)
    /\ UNCHANGED <<dbVars, tenantVars, mb, bt, run, poll, stream>>

\* Variant of AllTenantsBegin: db.DatabaseOperations exists and lists no
\* tenant; the function returns {'success': False, 'error': 'No tenants
\* configured'} (tasks.py 131-132).
AllTenantsBeginNoTenants ==
    /\ task.pc = "l128"
    /\ task' = [task EXCEPT !.pc = "return", !.result = "No tenants configured"]
    /\ UNCHANGED <<dbVars, tenantVars, mb, bt, run, poll, stream>>

\* tasks.py 128: db.DatabaseOperations() raises AttributeError before the
\* first state write of backup_all_tenants_async; lines 129-203 are never reached.
AllTenantsBegin ==
    /\ task.pc = "l128"
    /\ task' = Caught(task, NoDatabaseOperations)
    /\ UNCHANGED <<dbVars, tenantVars, mb, bt, run, poll, stream>>

\* tasks.py 229: MeilisearchClient() sets the index up and re-raises what
\* goes wrong there (search.py 13-66).
IndexSetup ==
    /\ task.pc = "l229"
    /\ \E ok \in BOOLEAN :
          task' = IF ok THEN [task EXCEPT !.pc = "l231"] ELSE Caught(task, IndexSetupError)
    /\ UNCHANGED <<dbVars, tenantVars, mb, bt, run, poll, stream>>

\* tasks.py 231-251
IndexPreparing ==
    /\ task.pc = "l231"
    /\ task' = [Store(task, Progress("indexing", 20)) EXCEPT !.pc = "l253"]
    /\ poll' = Touched(poll)
    /\ UNCHANGED <<dbVars, tenantVars, mb, bt, run, stream>>

\* tasks.py 253-268: index_messages absorbs its own errors (search.py 78-97)
\* and the function returns.
IndexUploading ==
    /\ task.pc = "l253"
    /\ task' = [Store(task, Progress("uploading", 60)) EXCEPT !.pc = "return",
                                                              !.result = "indexed"]
    /\ poll' = Touched(poll)
    /\ UNCHANGED <<dbVars, tenantVars, mb, bt, run, stream>>

\* tasks.py 105-110, 205-210, 270-275: the except clause writes FAILURE itself.
TaskExcept ==
    /\ task.pc = "except"
    /\ task' = [Store(task, FailureMeta(task.exc)) EXCEPT !.pc = "raise"]
    /\ poll' = Touched(poll)
    /\ UNCHANGED <<dbVars, tenantVars, mb, bt, run, stream>>

\* Variant of TaskRaise: backup_tenant_async is retried without limit
\* (max_retries=None).
TaskRaiseForever ==
    /\ task.pc = "raise"
    /\ task' = IF task.kind = "backup_tenant_async"
               THEN [Store(task, Retrying(task.exc)) EXCEPT !.pc = "queued",
                                                            !.retries = Min(@ + 1, MaxRetries)]
               ELSE [Store(task, Failed(task.exc)) EXCEPT !.pc = "finished"]
    /\ poll' = Touched(poll)
    /\ UNCHANGED <<dbVars, tenantVars, mb, bt, run, stream>>

\* Variant of TaskRaise: the except clause ends without `raise exc`, the
\* function returns None and the worker records SUCCESS.
TaskRaiseSwallowed ==
    /\ task.pc = "raise"
    /\ task' = [Store(task, Succeeded("None")) EXCEPT !.pc = "finished"]
    /\ poll' = Touched(poll)
    /\ UNCHANGED <<dbVars, tenantVars, mb, bt, run, stream>>

\* tasks.py 111, 211, 276: `raise exc`.  backup_tenant_async is declared with
\* autoretry_for=(Exception,) and max_retries 3 (tasks.py 44): while retries
\* remain the worker records RETRY and queues the call again; otherwise, and
\* for the other two tasks (tasks.py 114, 214), it records FAILURE with the
\* exception.
TaskRaise ==
    /\ task.pc = "raise"
    /\ task' = IF task.kind = "backup_tenant_async" /\ task.retries < MaxRetries
               THEN [Store(task, Retrying(task.exc)) EXCEPT !.pc = "queued", !.retries = @ + 1]
               ELSE [Store(task, Failed(task.exc)) EXCEPT !.pc = "finished"]
    /\ poll' = Touched(poll)
    /\ UNCHANGED <<dbVars, tenantVars, mb, bt, run, stream>>

\* The 'success' entry of the dictionaries the task functions return:
\* tasks.py 96-103 and 263-268 return True, 131-132 and 198-203 return False;
\* a function that returns None has no such entry.
ResultSuccess(result) ==
    CASE result = "No messages found to backup" -> TRUE
      [] result = "indexed" -> TRUE
      [] result = "No tenants configured" -> FALSE
      [] result = "No messages collected from any tenant" -> FALSE
      [] OTHER -> FALSE

\* tasks.py 94, 96-103, 263-268: the function returns; the worker records
\* SUCCESS with the returned value.
TaskReturn ==
    /\ task.pc = "return"
    /\ task' = [Store(task, Succeeded(task.result)) EXCEPT !.pc = "finished"]
    /\ poll' = Touched(poll)
    /\ UNCHANGED <<dbVars, tenantVars, mb, bt, run, stream>>

----------------------------------------------------------------------------
(* get_backup_status (web.py 333-379) *)

\* AsyncResult keeps the entry it has read once the entry's state is one of
\* these; every other read of task.state, task.info or task.result asks the
\* backend again.
ReadyStates == {"SUCCESS", "FAILURE", "REVOKED"}

NoCache == Meta("", "none", "", 0, "")

\* Reading an entry whose state is FAILURE or RETRY converts the stored value
\* back to an exception; the dictionary update_state stored with FAILURE
\* (tasks.py 107-110) names no exception type and the conversion raises.
Undecodable(meta) == meta.state \in {"FAILURE", "RETRY"} /\ meta.kind = "meta"

\* The JSON bodies get_backup_status returns.
Response(state, progress, stage, text) ==
    [state |-> state, progress |-> progress, stage |-> stage, text |-> text]

\* web.py 378-379
ErrorResponse == Response("", 0, "", "Failed to get task status")
NoResponse == Response("", 0, "", "")

PollReady ==
    [pc |-> "idle", cache |-> NoCache, progress |-> 0, stage |-> "", state |-> "",
     touchedPrev |-> FALSE, touchedCur |-> FALSE,
     done |-> [valid |-> FALSE, resp |-> NoResponse],
     pair |-> [quiet |-> FALSE, same |-> FALSE]]

\* What a read of the AsyncResult yields: the kept entry, or the backend's.
Fetch(p) == IF p.cache # NoCache THEN p.cache ELSE task.stored

\* The request returns resp.  History: done is the last completed request;
\* touchedPrev, touchedCur tell whether the task's entry was written between
\* the start of that request and the start of this one, and since; pair tells
\* whether the last two completed requests ran with no write from the start of
\* the first to the end of the second, and whether they returned the same body.
Respond(p, resp) ==
    [p EXCEPT !.pc = "idle", !.cache = NoCache,
              !.pair = [quiet |-> p.done.valid /\ ~ p.touchedPrev /\ ~ p.touchedCur,
                        same |-> p.done.resp = resp],
              !.done = [valid |-> TRUE, resp |-> resp]]

Goto(p, meta, pc) ==
    [p EXCEPT !.pc = pc, !.cache = IF meta.state \in ReadyStates THEN meta ELSE @]

\* task.info.get(key, default): info is a dictionary for PROGRESS (the meta),
\* STARTED and SUCCESS (no such key: the default); an exception or None has no get.
HasGet(meta) == meta.kind \in {"meta", "started", "result"}

\* web.py 337-376: the request from one read of the task's entry to the next.
PollNext(p, meta) ==
    IF Undecodable(meta) THEN Respond(p, ErrorResponse)
    ELSE CASE p.pc = "l339" ->
                 IF meta.state = "PENDING"
                 THEN Respond(p, Response("PENDING", 0, "", "Task is waiting to be processed..."))
                 ELSE Goto(p, meta, "l346")
           [] p.pc = "l346" ->
                 IF meta.state = "PROGRESS" THEN Goto(p, meta, "l350") ELSE Goto(p, meta, "l354")
           [] p.pc = "l350" ->
                 IF ~ HasGet(meta) THEN Respond(p, ErrorResponse)
                 ELSE [Goto(p, meta, "l351") EXCEPT
                          !.progress = IF meta.kind = "meta" THEN meta.progress ELSE 0]
           [] p.pc = "l351" ->
                 IF ~ HasGet(meta) THEN Respond(p, ErrorResponse)
                 ELSE [Goto(p, meta, "l352") EXCEPT
                          !.stage = IF meta.kind = "meta" THEN meta.stage ELSE "unknown"]
           [] p.pc = "l352" ->
                 IF ~ HasGet(meta) THEN Respond(p, ErrorResponse)
                 ELSE Respond(p, Response("PROGRESS", p.progress, p.stage,
                                          IF meta.kind = "meta" /\ meta.state = "PROGRESS"
                                          THEN meta.stage ELSE "Processing..."))
           [] p.pc = "l354" ->
                 IF meta.state = "SUCCESS"
                 THEN Respond(p, Response("SUCCESS", 100, "", meta.text))
                 ELSE Goto(p, meta, "l362")
           [] p.pc = "l362" ->
                 IF meta.state = "FAILURE"
                 THEN Respond(p, Response("FAILURE", 0, "", meta.text))
                 ELSE Goto(p, meta, "l373")
           [] p.pc = "l373" -> [Goto(p, meta, "l375") EXCEPT !.state = meta.state]
           [] p.pc = "l375" -> Respond(p, Response(p.state, 0, "", meta.state))

\* web.py 334-337: a client asks for the status of the task.
PollBegin ==
    /\ poll.pc = "idle"
    /\ poll' = [poll EXCEPT !.pc = "l339", !.touchedPrev = poll.touchedCur, !.touchedCur = FALSE,
                            !.progress = 0, !.stage = "", !.state = ""]
    /\ UNCHANGED <<dbVars, tenantVars, mb, bt, run, task, stream>>

\* Variant of PollRead: the endpoint forgets a finished task once it has read it.
PollReadForgetting ==
    /\ poll.pc \notin {"off", "idle"}
    /\ poll' = PollNext(poll, Fetch(poll))
    /\ task' = IF Fetch(poll).state \in ReadyStates THEN Store(task, Pending) ELSE task
    /\ UNCHANGED <<dbVars, tenantVars, mb, bt, run, stream>>

\* One read of task.state, task.info or task.result in get_backup_status and
\* what the code does with it; the task's entry is read, never written.
PollRead ==
    /\ poll.pc \notin {"off", "idle"}
    /\ poll' = PollNext(poll, Fetch(poll))
    /\ UNCHANGED <<dbVars, tenantVars, mb, bt, run, task, stream>>

----------------------------------------------------------------------------
(* stream_backup_status (web.py 382-447) *)

\* The payloads of the events: a status dictionary (it always carries
\* task_id), or the {'error': ...} dictionary of the except clause.
Status(state, progress, stage, message, extra) ==
    [keys |-> "status", state |-> state, progress |-> progress, stage |-> stage,
     message |-> message, extra |-> extra]
StreamError(text) ==
    [keys |-> "error", state |-> "", progress |-> 0, stage |-> "", message |-> "", extra |-> text]

\* last_state = None (web.py 386); no event sent yet
NoStatus == [keys |-> "none", state |-> "", progress |-> 0, stage |-> "", message |-> "", extra |-> ""]

NotDecoded == "exception information must include the exception type"
NoGet == "object has no attribute 'get'"

\* The generator as entered.  History: event is the last payload sent;
\* several tells that two or more were sent, repeated that some payload sent
\* was identical to the one sent just before it, skipped that some iteration
\* sent nothing.
StreamReady ==
    [pc |-> "l393", cache |-> NoCache, status |-> NoStatus, last_state |-> NoStatus,
     event |-> NoStatus, several |-> FALSE, repeated |-> FALSE, skipped |-> FALSE]

\* yield f"data: {json.dumps(payload)}\n\n"
Emit(s, payload) ==
    [s EXCEPT !.event = payload, !.several = s.event # NoStatus,
              !.repeated = @ \/ payload = s.event]

\* web.py 442-444: the except clause sends the error and ends the stream.
StreamExcept(s, text) ==
    [Emit(s, StreamError(text)) EXCEPT !.pc = "ended", !.cache = NoCache, !.status = NoStatus]

\* web.py 389-431: from one read of the task's entry to the next, building `status`.
StreamNext(s, meta) ==
    IF Undecodable(meta) THEN StreamExcept(s, NotDecoded)
    ELSE CASE s.pc = "l393" ->
                 IF meta.state = "PENDING"
                 THEN [Goto(s, meta, "l433") EXCEPT
                          !.status = Status("PENDING", 0, "", "Task is waiting to be processed...", "")]
                 ELSE Goto(s, meta, "l400")
           [] s.pc = "l400" ->
                 IF meta.state = "PROGRESS"
                 THEN [Goto(s, meta, "l404") EXCEPT !.status = Status("PROGRESS", 0, "", "", "")]
                 ELSE Goto(s, meta, "l408")
           [] s.pc = "l404" ->
                 IF ~ HasGet(meta) THEN StreamExcept(s, NoGet)
                 ELSE [Goto(s, meta, "l405") EXCEPT
                          !.status.progress = IF meta.kind = "meta" THEN meta.progress ELSE 0]
           [] s.pc = "l405" ->
                 IF ~ HasGet(meta) THEN StreamExcept(s, NoGet)
                 ELSE [Goto(s, meta, "l406") EXCEPT
                          !.status.stage = IF meta.kind = "meta" THEN meta.stage ELSE "unknown"]
           [] s.pc = "l406" ->
                 IF ~ HasGet(meta) THEN StreamExcept(s, NoGet)
                 ELSE [Goto(s, meta, "l433") EXCEPT
                          !.status.message = IF meta.kind = "meta" /\ meta.state = "PROGRESS"
                                             THEN meta.stage ELSE "Processing..."]
           [] s.pc = "l408" ->
                 IF meta.state = "SUCCESS"
                 THEN [Goto(s, meta, "l433") EXCEPT
                          !.status = Status("SUCCESS", 100, "", "Backup completed successfully!",
                                            meta.text)]
                 ELSE Goto(s, meta, "l416")
           [] s.pc = "l416" ->
                 IF meta.state = "FAILURE"
                 THEN [Goto(s, meta, "l433") EXCEPT
                          !.status = Status("FAILURE", 0, "", "Backup failed", meta.text)]
                 ELSE Goto(s, meta, "l426")
           [] s.pc = "l426" ->
                 [Goto(s, meta, "l428") EXCEPT !.status = Status(meta.state, 0, "", "", "")]
           [] s.pc = "l428" ->
                 [Goto(s, meta, "l433") EXCEPT !.status.message = meta.state]
           [] s.pc = "l437" ->
                 IF meta.state \in {"SUCCESS", "FAILURE"}
                 THEN [s EXCEPT !.pc = "ended", !.cache = NoCache]
                 ELSE [s EXCEPT !.pc = "l393", !.cache = NoCache]

\* One read of task.state, task.info or task.result in the generator and what
\* the code does with it; after the read of line 437 the generator ends or
\* sleeps and begins its next iteration with a new AsyncResult.
StreamRead ==
    /\ stream.pc \notin {"off", "l433", "ended"}
    /\ stream' = StreamNext(stream, Fetch(stream))
    /\ UNCHANGED <<dbVars, tenantVars, mb, bt, run, task, poll>>

\* Variant of StreamCompare: every iteration sends its status.
StreamCompareAlways ==
    /\ stream.pc = "l433"
    /\ stream' = [Emit(stream, stream.status) EXCEPT !.pc = "l437", !.status = NoStatus,
                                                     !.last_state = stream.status]
    /\ UNCHANGED <<dbVars, tenantVars, mb, bt, run, task, poll>>

\* web.py 433-435: `if status != last_state:` send it and remember a copy.
\* `status` is assigned anew by every branch of the next iteration.
StreamCompare ==
    /\ stream.pc = "l433"
    /\ stream' = IF stream.status # stream.last_state
                 THEN [Emit(stream, stream.status) EXCEPT !.pc = "l437", !.status = NoStatus,
                                                          !.last_state = stream.status]
                 ELSE [stream EXCEPT !.pc = "l437", !.status = NoStatus, !.skipped = TRUE]
    /\ UNCHANGED <<dbVars, tenantVars, mb, bt, run, task, poll>>

----------------------------------------------------------------------------
(* The parts of the state a specification does not use *)

BtIdle == [pc |-> "off"]
RunIdle == [pc |-> "off"]
TaskIdle == [pc |-> "off"]
PollIdle == [pc |-> "off"]
StreamIdle == [pc |-> "off"]

----------------------------------------------------------------------------
(* Backup runs: the CLI snapshot action (main.py 349-364), snapshot_job
   (scripts/scheduler_runner.py 17-31), trigger_backup (web.py 130-191),
   backup_all_tenants_async (tasks.py 114-211) over all tenants, and
   trigger_tenant_backup (web.py 194-240) over one *)

Runners == {"cli", "snapshot_job", "trigger_backup", "backup_all_tenants_async",
            "trigger_tenant_backup"}

\* The endpoints that run inside `try: ... except Exception as e: return
\* {"error": str(e)}` (web.py 190-191, 239-240).
Catching == {"trigger_backup", "trigger_tenant_backup"}

\* The label each runner passes to store_snapshot: SNAPSHOT_LABEL or None,
\* 'scheduled', label or 'manual-web', label or f'manual-{tenant["name"]}'.
RunLabel(kind) ==
    CASE kind = "cli" -> NoLabel
      [] kind = "snapshot_job" -> "scheduled"
      [] kind = "trigger_tenant_backup" -> "manual-t1"
      [] OTHER -> "manual-web"

\* MAILS_PER_USER defaults to '200' (scheduler_runner.py 27), as does the
\* mails_per_user parameter of trigger_backup (web.py 132).
DefaultQuota == 200

\* The directory of each tenant of the run: one user with a mailbox of M messages.
RunDirectory(name, M) == << User(IF name = "t1" THEN "u1" ELSE "u2", TRUE, M) >>

\* The sizes of the tenants' mailboxes.
RunMailboxes == {0, 2}

\* web.py 155-159: the entry of tenant_results for a backup_tenant call that
\* returned `collected`.
TenantResult(name, collected) ==
    [tenant_name |-> name, messages_collected |-> Len(collected), status |-> "success",
     error |-> ""]

\* web.py 164-169: the entry for a call that raised.
TenantError(name, text) ==
    [tenant_name |-> name, messages_collected |-> 0, status |-> "error", error |-> text]

NotCalled == [status |-> "none", items |-> <<>>]

\* The run as entered: the tenants it was given (what the credentials of each
\* lead to), the options, nothing collected.  results, clean (history): how
\* the backup_tenant call of each tenant ended, and whether nothing but token
\* acquisitions has failed so far.
StartRun(kind, auths, sizes, K, da) ==
    [kind |-> kind,
     pc |-> IF kind = "backup_all_tenants_async" THEN "task" ELSE "next",
     tenants |-> IF kind = "trigger_tenant_backup"
                 THEN << [name |-> "t1", auth |-> auths[1], M |-> sizes[1]] >>
                 ELSE << [name |-> "t1", auth |-> auths[1], M |-> sizes[1]],
                         [name |-> "t2", auth |-> auths[2], M |-> sizes[2]] >>,
     K |-> K, da |-> da, i |-> 1, batch |-> <<>>, total_collected |-> <<>>,
     tenant_results |-> <<>>,
     results |-> IF kind = "trigger_tenant_backup" THEN << NotCalled >>
                 ELSE << NotCalled, NotCalled >>,
     clean |-> TRUE, error |-> FALSE]

\* The loop header `for tenant in tenants` after tenant i, and what follows
\* the loop: trigger_backup stores what all tenants yielded (web.py 172-188),
\* the other runners are done.
AfterTenant(r) ==
    IF r.i < Len(r.tenants) THEN [r EXCEPT !.i = @ + 1, !.pc = "next"]
    ELSE IF r.kind = "trigger_backup" /\ r.total_collected # <<>>
         THEN [r EXCEPT !.pc = "store", !.batch = r.total_collected]
         ELSE [r EXCEPT !.pc = "done"]

\* main.py 358, scheduler_runner.py 27, web.py 154: backup_tenant(tenant, options)
RunCallTenant ==
    /\ run.pc = "next"
    /\ bt' = StartTenant(run.tenants[run.i].name, run.tenants[run.i].auth, run.K, run.da,
                         RunDirectory(run.tenants[run.i].name, run.tenants[run.i].M), 2, 2)
    /\ run' = [run EXCEPT !.pc = "collecting"]
    /\ UNCHANGED <<dbVars, tenantVars, mb, task, poll, stream>>

NoFault(b) ==
    /\ b.fault \in {"none", "no-credentials", "token-fails"}
    /\ \A u \in 1..Len(b.dir) : b.attempts[u].fault = "none"

\* Variant of RunTenantOver: the callers store whatever backup_tenant
\* returned, without `if collected:`.
RunTenantOverAlwaysStoring ==
    /\ run.pc = "collecting"
    /\ bt.pc \in {"returned", "raised"}
    /\ LET noted == [run EXCEPT !.results[run.i] = [status |-> bt.pc, items |-> bt.result],
                                !.clean = @ /\ NoFault(bt)]
       IN  run' = CASE bt.pc = "raised" /\ run.kind \notin Catching ->
                         [noted EXCEPT !.pc = "raised"]
                    [] bt.pc = "raised" /\ run.kind = "trigger_tenant_backup" ->
                         [noted EXCEPT !.pc = "done"]
                    [] bt.pc = "raised" /\ run.kind = "trigger_backup" ->
                         AfterTenant([noted EXCEPT
                            !.tenant_results = Append(@, TenantError(bt.tenant, bt.fault))])
                    [] bt.pc = "returned" /\ run.kind = "trigger_backup" ->
                         AfterTenant([noted EXCEPT
                            !.total_collected = @ \o bt.result,
                            !.tenant_results = Append(@, TenantResult(bt.tenant, bt.result))])
                    [] OTHER -> [noted EXCEPT !.pc = "store", !.batch = bt.result]
    /\ bt' = BtIdle
    /\ UNCHANGED <<dbVars, tenantVars, mb, task, poll, stream>>

\* The backup_tenant call of tenant i is over.  The CLI and snapshot_job call
\* it outside any try and store a non-empty result at once (main.py 358-362,
\* scheduler_runner.py 27-31); trigger_backup catches its error and adds its
\* result to total_collected (web.py 153-170); trigger_tenant_backup answers
\* {"error": ...} to an error and stores a non-empty result (web.py 222-240).
RunTenantOver ==
    /\ run.pc = "collecting"
    /\ bt.pc \in {"returned", "raised"}
    /\ LET noted == [run EXCEPT !.results[run.i] = [status |-> bt.pc, items |-> bt.result],
                                !.clean = @ /\ NoFault(bt)]
       IN  run' = CASE bt.pc = "raised" /\ run.kind \notin Catching ->
                         [noted EXCEPT !.pc = "raised"]
                    [] bt.pc = "raised" /\ run.kind = "trigger_tenant_backup" ->
                         [noted EXCEPT !.pc = "done"]
                    [] bt.pc = "raised" /\ run.kind = "trigger_backup" ->
                         AfterTenant([noted EXCEPT
                            !.tenant_results = Append(@, TenantError(bt.tenant, bt.fault))])
                    [] bt.pc = "returned" /\ run.kind = "trigger_backup" ->
                         AfterTenant([noted EXCEPT
                            !.total_collected = @ \o bt.result,
                            !.tenant_results = Append(@, TenantResult(bt.tenant, bt.result))])
                    [] OTHER ->
                         IF bt.result # <<>>
                         THEN [noted EXCEPT !.pc = "store", !.batch = bt.result]
                         ELSE AfterTenant(noted)
    /\ bt' = BtIdle
    /\ UNCHANGED <<dbVars, tenantVars, mb, task, poll, stream>>

\* main.py 360, scheduler_runner.py 30, web.py 175, 227: store_snapshot(label, collected)
RunStore ==
    /\ run.pc = "store"
    /\ Begin("w1", RunLabel(run.kind), run.batch, FALSE)
    /\ run' = [run EXCEPT !.pc = "storing"]
    /\ UNCHANGED <<tenantVars, mb, bt, task, poll, stream>>

\* store_snapshot is over.  Its error leaves the CLI and snapshot_job
\* (nothing catches it); the two endpoints answer {"error": ...} (web.py
\* 190-191, 239-240).
RunStoreOver ==
    /\ run.pc = "storing"
    /\ tx["w1"].pc \in {"returned", "raised", "aborted"}
    /\ run' = IF tx["w1"].pc = "returned"
              THEN IF run.kind \in Catching THEN [run EXCEPT !.pc = "done"]
                   ELSE AfterTenant(run)
              ELSE [run EXCEPT !.clean = FALSE, !.error = TRUE,
                               !.pc = IF run.kind \in Catching THEN "done" ELSE "raised"]
    /\ UNCHANGED <<dbVars, tenantVars, mb, bt, task, poll, stream>>

\* The run is over: it returned or raised; backup_all_tenants_async is over
\* when its task is.
RunOver ==
    \/ run.pc \in {"done", "raised"}
    \/ run.pc = "task" /\ task.pc = "finished"

----------------------------------------------------------------------------
(* Specifications of the store *)


Init ==
    /\ snapshots = {}
    /\ messages = {}
    /\ snapSeq = 0
    /\ msgSeq = 0
    /\ tx = [p \in Workers |-> Idle]
    /\ calls = 0
    /\ firstSeen = [h \in Hashes |-> 0]
    /\ tenants = {}
    /\ tenantSeq = 0
    /\ mb = MbIdle
    /\ bt = BtIdle
    /\ run = RunIdle
    /\ task = TaskIdle
    /\ poll = PollIdle
    /\ stream = StreamIdle

StoreStep(p) ==
    \/ \E batch \in Batches(WorkerItems(p)) :
          Begin(p, WorkerLabel(p), batch, FALSE) /\ UNCHANGED <<tenantVars, mb, appVars>>
    \/ Check(p) /\ UNCHANGED <<tenantVars, mb, appVars>>
    \/ InsertRow(p) /\ UNCHANGED <<tenantVars, mb, appVars>>
    \/ InsertConflict(p, FALSE) /\ UNCHANGED <<tenantVars, mb, appVars>>
    \/ InsertDeadlock(p, FALSE) /\ UNCHANGED <<tenantVars, mb, appVars>>
    \/ Commit(p, FALSE) /\ UNCHANGED <<tenantVars, mb, appVars>>
    \/ Abandon(p, FALSE) /\ UNCHANGED <<tenantVars, mb, appVars>>

Next ==
    \/ \E p \in Workers : StoreStep(p)
    \/ ListSnapshots
    \/ GetSnapshotMessages
    \/ GetMessageById

Spec == Init /\ [][Next]_vars

\* One caller, call after call: no INSERT ever meets a row of another open or
\* newly committed transaction, so InsertConflict and InsertDeadlock cannot occur.
SeqStoreStep(p) ==
    \/ \E label \in Labels, batch \in Batches(SeqItems) :
          Begin(p, label, batch, TRUE) /\ UNCHANGED <<tenantVars, mb, appVars>>
    \/ Check(p) /\ UNCHANGED <<tenantVars, mb, appVars>>
    \/ InsertRow(p) /\ UNCHANGED <<tenantVars, mb, appVars>>
    \/ Commit(p, TRUE) /\ UNCHANGED <<tenantVars, mb, appVars>>
    \/ Abandon(p, TRUE) /\ UNCHANGED <<tenantVars, mb, appVars>>

SeqNext == SeqStoreStep("w1")

SeqSpec == Init /\ [][SeqNext]_vars

\* Every operation on the database, issued one at a time by the web
\* application: store_snapshot for one tenant, the readers, the tenant registry.
OpsStoreStep(p) ==
    \/ \E batch \in Batches(WorkerItems(p)) :
          Begin(p, WorkerLabel(p), batch, FALSE) /\ UNCHANGED <<tenantVars, mb, appVars>>
    \/ Check(p) /\ UNCHANGED <<tenantVars, mb, appVars>>
    \/ InsertRow(p) /\ UNCHANGED <<tenantVars, mb, appVars>>
    \/ Commit(p, FALSE) /\ UNCHANGED <<tenantVars, mb, appVars>>
    \/ Abandon(p, FALSE) /\ UNCHANGED <<tenantVars, mb, appVars>>

OpsNext ==
    \/ OpsStoreStep("w1")
    \/ ListSnapshots
    \/ GetSnapshotMessages
    \/ GetMessageById
    \/ CreateTenant
    \/ UpdateTenant
    \/ DeleteTenant
    \/ TriggerTenant

OpsSpec == Init /\ [][OpsNext]_vars

PageInit ==
    /\ snapshots = {}
    /\ messages = {}
    /\ snapSeq = 0
    /\ msgSeq = 0
    /\ tx = [p \in Workers |-> Idle]
    /\ calls = 0
    /\ firstSeen = [h \in Hashes |-> 0]
    /\ tenants = {}
    /\ tenantSeq = 0
    /\ \E K \in Quotas \cup {Unbounded}, da \in BOOLEAN, M \in Listings, S \in ServerPageSizes :
          mb = StartMailbox(K # Unbounded, K, da, M, S)
    /\ bt = BtIdle
    /\ run = RunIdle
    /\ task = TaskIdle
    /\ poll = PollIdle
    /\ stream = StreamIdle

PageNext ==
    \/ FetchPage
    \/ ListFails
    \/ ListRaises
    \/ AttachRaises

PageSpec == PageInit /\ [][PageNext]_vars

----------------------------------------------------------------------------
(* One backup_mailbox call that keeps running *)

\* Short listings served in short pages, long listings in long pages.
LiveListings ==
    ((0..(MaxSmall + 2)) \X {1, 2, 3})
    \cup (((PageSizeDefault - 1)..(PageSizeDefault + MaxOver + 1)) \X {60, PageSizeDefault})

\* Quotas below, at and above the default page size, and none.
LiveQuotas == {1, 2, MaxSmall, PageSizeDefault, PageSizeDefault + MaxOver, Unbounded}

PageLiveInit ==
    /\ snapshots = {}
    /\ messages = {}
    /\ snapSeq = 0
    /\ msgSeq = 0
    /\ tx = [p \in Workers |-> Idle]
    /\ calls = 0
    /\ firstSeen = [h \in Hashes |-> 0]
    /\ tenants = {}
    /\ tenantSeq = 0
    /\ mb = MbIdle
    /\ bt = BtIdle
    /\ run = RunIdle
    /\ task = TaskIdle
    /\ poll = PollIdle
    /\ stream = StreamIdle

\* main.py 105-115: backup_mailbox is called, with some quota, for a user
\* with some mailbox.
CallMailbox ==
    /\ mb.pc = "off"
    /\ \E K \in LiveQuotas, da \in BOOLEAN, MS \in LiveListings :
          mb' = StartMailbox(K # Unbounded, K, da, MS[1], MS[2])
    /\ UNCHANGED <<dbVars, tenantVars, appVars>>

PageLiveNext ==
    \/ CallMailbox
    \/ FetchPage
    \/ ListFails
    \/ ListRaises
    \/ AttachRaises

\* The call is made, and every request it issues is answered or raises.
PageLiveSpec == PageLiveInit /\ [][PageLiveNext]_vars /\ WF_vars(PageLiveNext)

----------------------------------------------------------------------------
(* One task from its submission on, and clients polling its status *)

TaskInit ==
    /\ snapshots = {}
    /\ messages = {}
    /\ snapSeq = 0
    /\ msgSeq = 0
    /\ tx = [p \in Workers |-> Idle]
    /\ calls = 0
    /\ firstSeen = [h \in Hashes |-> 0]
    /\ tenants = {}
    /\ tenantSeq = 0
    /\ mb = MbIdle
    /\ bt = BtIdle
    /\ run = RunIdle
    /\ \E kind \in TaskKinds : task = Submitted(kind)
    /\ poll = PollReady
    /\ stream = StreamIdle

TaskNext ==
    \/ TaskStart
    \/ TenantAuthenticating
    \/ TenantCollect
    \/ TenantStoring
    \/ TenantPersist
    \/ AllTenantsBegin
    \/ IndexSetup
    \/ IndexPreparing
    \/ IndexUploading
    \/ TaskExcept
    \/ TaskRaise
    \/ TaskReturn
    \/ PollBegin
    \/ PollRead

TaskSpec == TaskInit /\ [][TaskNext]_vars

----------------------------------------------------------------------------
(* One backup_tenant call against a remote directory *)

TenantInit ==
    /\ snapshots = {}
    /\ messages = {}
    /\ snapSeq = 0
    /\ msgSeq = 0
    /\ tx = [p \in Workers |-> Idle]
    /\ calls = 0
    /\ firstSeen = [h \in Hashes |-> 0]
    /\ tenants = {}
    /\ tenantSeq = 0
    /\ mb = MbIdle
    /\ \E auth \in {"ok", "no-credentials", "token-fails"}, K \in TenantQuotas, da \in BOOLEAN,
          dir \in TenantDirectories, P \in UserPageSizes, S \in TenantPageSizes :
          bt = StartTenant("t1", auth, K, da, dir, P, S)
    /\ run = RunIdle
    /\ task = TaskIdle
    /\ poll = PollIdle
    /\ stream = StreamIdle

TenantNext ==
    \/ BtToken
    \/ BtListUsers
    \/ BtProbe
    \/ BtMailboxOver
    \/ FetchPage
    \/ ListFails
    \/ ListRaises
    \/ AttachRaises

TenantSpec == TenantInit /\ [][TenantNext]_vars

----------------------------------------------------------------------------
(* One multi-tenant run over two tenants *)

RunInit ==
    /\ snapshots = {}
    /\ messages = {}
    /\ snapSeq = 0
    /\ msgSeq = 0
    /\ tx = [p \in Workers |-> Idle]
    /\ calls = 0
    /\ firstSeen = [h \in Hashes |-> 0]
    /\ tenants = {}
    /\ tenantSeq = 0
    /\ mb = MbIdle
    /\ bt = BtIdle
    /\ \E kind \in Runners, a1 \in {"ok", "token-fails"}, a2 \in {"ok", "token-fails"},
          m1 \in RunMailboxes, m2 \in RunMailboxes,
          K \in {Unbounded, DefaultQuota}, da \in BOOLEAN :
          /\ run = StartRun(kind, <<a1, a2>>, <<m1, m2>>, K, da)
          /\ task = IF kind = "backup_all_tenants_async" THEN Submitted(kind) ELSE TaskIdle
    /\ poll = PollIdle
    /\ stream = StreamIdle

RunStoreStep(p) ==
    \/ Check(p) /\ UNCHANGED <<tenantVars, mb, appVars>>
    \/ InsertRow(p) /\ UNCHANGED <<tenantVars, mb, appVars>>
    \/ Commit(p, FALSE) /\ UNCHANGED <<tenantVars, mb, appVars>>
    \/ Abandon(p, FALSE) /\ UNCHANGED <<tenantVars, mb, appVars>>

RunNext ==
    \/ RunCallTenant
    \/ RunTenantOver
    \/ RunStore
    \/ RunStoreOver
    \/ RunStoreStep("w1")
    \/ BtToken
    \/ BtListUsers
    \/ BtProbe
    \/ BtMailboxOver
    \/ FetchPage
    \/ ListFails
    \/ ListRaises
    \/ AttachRaises
    \/ TaskStart
    \/ AllTenantsBegin
    \/ TaskExcept
    \/ TaskRaise

RunSpec == RunInit /\ [][RunNext]_vars

----------------------------------------------------------------------------
(* One Celery task and one status stream about it *)

StreamInit ==
    /\ snapshots = {}
    /\ messages = {}
    /\ snapSeq = 0
    /\ msgSeq = 0
    /\ tx = [p \in Workers |-> Idle]
    /\ calls = 0
    /\ firstSeen = [h \in Hashes |-> 0]
    /\ tenants = {}
    /\ tenantSeq = 0
    /\ mb = MbIdle
    /\ bt = BtIdle
    /\ run = RunIdle
    /\ \E kind \in TaskKinds : task = Submitted(kind)
    /\ poll = PollIdle
    /\ stream = StreamReady

StreamSpecNext ==
    \/ TaskStart
    \/ TenantAuthenticating
    \/ TenantCollect
    \/ TenantStoring
    \/ TenantPersist
    \/ AllTenantsBegin
    \/ IndexSetup
    \/ IndexPreparing
    \/ IndexUploading
    \/ TaskExcept
    \/ TaskRaise
    \/ TaskReturn
    \/ StreamRead
    \/ StreamCompare

StreamSpec == StreamInit /\ [][StreamSpecNext]_vars

----------------------------------------------------------------------------
(* One task run by a worker that keeps running it *)

WorkerInit ==
    /\ snapshots = {}
    /\ messages = {}
    /\ snapSeq = 0
    /\ msgSeq = 0
    /\ tx = [p \in Workers |-> Idle]
    /\ calls = 0
    /\ firstSeen = [h \in Hashes |-> 0]
    /\ tenants = {}
    /\ tenantSeq = 0
    /\ mb = MbIdle
    /\ bt = BtIdle
    /\ run = RunIdle
    /\ \E kind \in TaskKinds : task = Submitted(kind)
    /\ poll = PollIdle
    /\ stream = StreamIdle

WorkerNext ==
    \/ TaskStart
    \/ TenantAuthenticating
    \/ TenantCollect
    \/ TenantStoring
    \/ TenantPersist
    \/ AllTenantsBegin
    \/ IndexSetup
    \/ IndexPreparing
    \/ IndexUploading
    \/ TaskExcept
    \/ TaskRaise
    \/ TaskReturn

\* The worker takes a queued task (a retry after its countdown) and runs the
\* function to its end: every call the function makes returns or raises.
WorkerSpec == WorkerInit /\ [][WorkerNext]_vars /\ WF_vars(WorkerNext)

----------------------------------------------------------------------------
(* Properties of the snapshot store *)

InFlight(p) == tx[p].pc \in {"check", "insert", "commit"}
RowsOf(sid) == { r \in messages : r.snapshot_id = sid }

\* C1: in every reachable state, under any interleaving of store_snapshot
\* calls, no two committed message rows carry the same message_hash.
C1_UniqueHash ==
    \A r1, r2 \in messages : r1.message_hash = r2.message_hash => r1 = r2

\* Two calls whose batches shared a hash are both over and the hash is stored.
C1_Witness ==
    \E p, q \in Workers :
        /\ p # q
        /\ tx[p].pc = "returned" /\ tx[q].pc \in {"returned", "raised"}
        /\ \E h \in tx[p].hashes \cap tx[q].hashes : \E r \in messages : r.message_hash = h

\* C2 (as claimed): whenever concurrent calls race on a hash, the uniqueness
\* violation is absorbed as a skip, so no store_snapshot call ends by raising it.
C2_NoCallRaises ==
    \A p \in Workers : tx[p].pc # "raised"

\* C4: a call that raised or was abandoned before its commit, or that is still
\* running, has neither its snapshot row nor any of its message rows in the
\* committed store; a snapshot row is committed together with all the message
\* rows its call inserted, and no message row is committed without its snapshot.
C4_Atomic ==
    /\ \A p \in Workers :
          /\ (InFlight(p) \/ tx[p].pc \in {"raised", "aborted"}) =>
                /\ ~ \E s \in snapshots : s.id = tx[p].sid
                /\ RowsOf(tx[p].sid) = {}
          /\ tx[p].pc = "returned" =>
                /\ \E s \in snapshots : s.id = tx[p].sid
                /\ Cardinality(RowsOf(tx[p].sid)) = tx[p].inserted
    /\ \A r \in messages : \E s \in snapshots : s.id = r.snapshot_id

\* A call was rolled back after it had inserted rows, beside a committed one.
C4_Witness ==
    \E p, q \in Workers :
        /\ tx[p].pc \in {"raised", "aborted"} /\ tx[p].inserted > 0
        /\ tx[q].pc = "returned" /\ tx[q].inserted > 0

\* C5: the step by which a store_snapshot call returns adds exactly one
\* snapshot row, with the call's id and the label it was given (null
\* included), also when the call inserted no message; no other step adds one.
C5_OneSnapshotPerCall ==
    [][ /\ \A p \in Workers :
             (tx[p].pc = "commit" /\ tx'[p].pc = "returned") =>
                /\ [id |-> tx[p].sid, label |-> tx[p].label] \notin snapshots
                /\ snapshots' = snapshots \cup { [id |-> tx[p].sid, label |-> tx[p].label] }
                /\ ~ \E s \in snapshots : s.id = tx[p].sid
        /\ (\A p \in Workers : ~ (tx[p].pc = "commit" /\ tx'[p].pc = "returned")) =>
                snapshots' = snapshots ]_vars

\* A call with the null label returned after skipping every message of its batch.
C5_Witness ==
    \E p \in Workers :
        /\ tx[p].pc = "returned" /\ tx[p].label = NoLabel
        /\ tx[p].hashes # {} /\ tx[p].inserted = 0
        /\ \E s \in snapshots : s.id = tx[p].sid /\ s.label = NoLabel

\* C6 (as claimed): on return, inserted is the number of distinct hashes of the
\* batch that were not stored before the call.
C6_NotStoredBeforeCall ==
    \A p \in Workers :
        tx[p].pc = "returned" =>
            tx[p].inserted = Cardinality(tx[p].hashes \ tx[p].storedAtStart)

\* C6 (amended): on return, inserted is the number of rows that reference the
\* returned snapshot id, which is the number of distinct hashes of the batch
\* for which no other call has a committed row; every hash of the batch is
\* stored exactly once.
C6_InsertedCount ==
    \A p \in Workers :
        tx[p].pc = "returned" =>
            /\ tx[p].inserted = Cardinality(RowsOf(tx[p].sid))
            /\ tx[p].inserted =
                  Cardinality({ h \in tx[p].hashes :
                      ~ \E r \in messages : r.message_hash = h /\ r.snapshot_id # tx[p].sid })
            /\ \A r \in RowsOf(tx[p].sid) : r.message_hash \in tx[p].hashes
            /\ \A h \in tx[p].hashes :
                  Cardinality({ r \in messages : r.message_hash = h }) = 1

\* A call returned that inserted one message and skipped another one, which
\* was already stored by an earlier snapshot.
C6_Witness ==
    \E p \in Workers :
        /\ tx[p].pc = "returned" /\ tx[p].inserted = 1
        /\ Cardinality(tx[p].hashes) = 2
        /\ \E r \in messages : r.message_hash \in tx[p].hashes /\ r.snapshot_id # tx[p].sid

\* C7: the snapshot_id of a message row is the id of the first committed
\* snapshot whose batch contained the row's hash; once a hash has been seen
\* by a committed snapshot it has exactly one row, so a later snapshot that
\* re-observes the hash adds none.
C7_FirstSeenWins ==
    /\ \A r \in messages : r.snapshot_id = firstSeen[r.message_hash]
    /\ \A h \in Hashes :
          firstSeen[h] # 0 => Cardinality({ r \in messages : r.message_hash = h }) = 1

\* Two committed snapshots held the same hash; its row belongs to the other one.
C7_Witness ==
    \E p, q \in Workers :
        /\ p # q /\ tx[p].pc = "returned" /\ tx[q].pc = "returned"
        /\ \E r \in messages :
              /\ r.message_hash \in tx[p].hashes \cap tx[q].hashes
              /\ r.snapshot_id = tx[p].sid
              /\ firstSeen[r.message_hash] # tx[q].sid

\* C3: a batch of N messages with pairwise different hashes, none of them
\* stored, persisted twice in a row: the first call returns inserted = N, the
\* second inserted = 0, and the table holds the N rows more it held before.
C3_PersistTwice ==
    \A p \in Workers :
        ( /\ tx[p].pc = "returned" /\ tx[p].prev.same
          /\ Cardinality(tx[p].hashes) = Len(tx[p].batch)
          /\ tx[p].hashes \cap tx[p].prev.storedAtStart = {} )
        => /\ tx[p].prev.inserted = Len(tx[p].batch)
           /\ tx[p].inserted = 0
           /\ Cardinality(messages) = Cardinality(tx[p].prev.storedAtStart) + Len(tx[p].batch)

\* The second of two calls with the same two-message batch has returned.
C3_Witness ==
    \E p \in Workers :
        /\ tx[p].pc = "returned" /\ tx[p].prev.same
        /\ Len(tx[p].batch) = 2 /\ Cardinality(tx[p].hashes) = 2
        /\ tx[p].hashes \cap tx[p].prev.storedAtStart = {}
        /\ Cardinality(messages) = 2

\* C8: no operation on the database updates or deletes a committed message
\* row: every row of the table is in the table, unchanged, after every step.
C8_RowsOnlyAdded ==
    [][ \A r \in messages : r \in messages' ]_vars

\* Rows are stored, a tenant has been updated and deleted, and a later
\* store_snapshot call has returned.
C8_Witness ==
    /\ messages # {}
    /\ \E t \in tenants : t.is_active = 0
    /\ calls = MaxCalls
    /\ tx["w1"].pc = "returned"

\* C39 (as claimed): a tenant deleted by delete_tenant keeps its row with
\* is_active = 0 and no backup collects for it: get_tenants_for_backup does
\* not return it and the per-tenant triggers start no collection for it.
C39_DeletedTenantNotCollected ==
    \A t \in tenants :
        t.is_active = 0 =>
            /\ [name |-> t.name, tenant_id |-> t.tenant_id] \notin get_tenants_for_backup
            /\ ~ StartsCollection(t.id)

----------------------------------------------------------------------------
(* Properties of compute_hash *)

\* The identity of a payload, read off the payload itself: its members whose
\* key is one of the six identity keys.
IdentityOf(message) == { message[i] : i \in { j \in 1..Len(message) : message[j][1] \in IdKeys } }
SameIdentity(a, b) == IdentityOf(a) = IdentityOf(b)

\* C18: two payloads with equal values of the six identity fields get the
\* same hash, whatever their key order and their other fields, and
\* store_snapshot treats them as one content: the table never holds two rows
\* whose payloads agree on the six fields.
C18_HashIgnoresOtherFields ==
    /\ \A a, b \in Items :
          SameIdentity(a.message_json, b.message_json) =>
              compute_hash(a.message_json) = compute_hash(b.message_json)
    /\ \A r1, r2 \in messages : SameIdentity(r1.raw_json, r2.raw_json) => r1 = r2

\* Two calls returned, one was handed Invoice and the other InvoiceTagged
\* (other key order, one more field); one row holds that content.
C18_Witness ==
    /\ tx["w1"].pc = "returned" /\ tx["w2"].pc = "returned"
    /\ compute_hash(Invoice) \in tx["w1"].hashes
    /\ compute_hash(InvoiceTagged) \in tx["w2"].hashes
    /\ Cardinality({ r \in messages : SameIdentity(r.raw_json, Invoice) }) = 1

\* C19: two payloads that differ in the value of one of the six identity
\* fields, an absent field and an empty one included, get different hashes,
\* and store_snapshot stores both: once a call that was handed both has
\* returned, each of the two contents has its own row.
C19_HashSeparatesIdentities ==
    /\ \A a, b \in Items :
          ~ SameIdentity(a.message_json, b.message_json) =>
              compute_hash(a.message_json) # compute_hash(b.message_json)
    /\ \A p \in Workers :
          tx[p].pc = "returned" =>
              \A i, j \in 1..Len(tx[p].batch) :
                  ~ SameIdentity(tx[p].batch[i].message_json, tx[p].batch[j].message_json) =>
                      \E r1, r2 \in messages :
                          /\ r1 # r2
                          /\ SameIdentity(r1.raw_json, tx[p].batch[i].message_json)
                          /\ SameIdentity(r2.raw_json, tx[p].batch[j].message_json)

\* A call handed Invoice (no cc) and InvoiceEmptyCc (cc = "") returned having
\* inserted both.
C19_Witness ==
    \E p \in Workers :
        /\ tx[p].pc = "returned" /\ tx[p].inserted = 2
        /\ \E i, j \in 1..Len(tx[p].batch) :
              /\ tx[p].batch[i].message_json = Invoice
              /\ tx[p].batch[j].message_json = InvoiceEmptyCc
        /\ Cardinality(messages) = 2

----------------------------------------------------------------------------
(* Properties of backup_mailbox *)

\* C9: with a bounded quota K, a listing of M > K messages and only successful
\* responses, no message-list request is issued once K messages have been
\* collected, and backup_mailbox returns exactly K collected messages.
C9_QuotaTruncation ==
    (mb.pc # "off" /\ mb.allOk /\ mb.bounded /\ mb.M > mb.K) =>
        /\ \A i \in 1..Len(mb.requests) : mb.requests[i].had < mb.K
        /\ mb.pc = "done" => Len(mb.collected) = mb.K

\* A quota above the default page size was reached over several pages,
\* without attachments.
C9_Witness ==
    /\ mb.pc = "done" /\ mb.allOk /\ mb.bounded /\ mb.M > mb.K
    /\ mb.K > PageSizeDefault /\ ~ mb.da
    /\ Len(mb.requests) >= 2 /\ Len(mb.collected) = mb.K

\* C10 (as claimed): with all responses successful the sequence returned is
\* the first min(K, M) messages of the listing, in listing order, each once.
C10_FirstItemsInOrder ==
    (mb.pc = "done" /\ mb.allOk /\ mb.bounded) =>
        mb.collected = [j \in 1..Min(mb.K, mb.M) |-> j]

\* C11 (as claimed): with a bounded quota K, a listing of M <= K messages and
\* only successful responses, backup_mailbox returns exactly the M messages,
\* and every list request after the first resumes where the previous response
\* ended (it follows the continuation), until a response carries none.
C11_PaginatesToExhaustion ==
    (mb.pc = "done" /\ mb.allOk /\ mb.bounded /\ mb.M <= mb.K) =>
        /\ mb.collected = [j \in 1..mb.M |-> j]
        /\ \A i \in 2..Len(mb.requests) : mb.requests[i].skip = mb.requests[i].had

\* The response to list request r carries no @odata.nextLink.
NoContinuation(r) == ~ NextLink(r.skip, r.top, mb.M, mb.S).open

\* C30: for every finite listing and every quota, bounded or not,
\* backup_mailbox issues finitely many list requests and its call ends; with
\* an unbounded quota and only successful responses it stops at the first
\* response that carries no continuation and has collected all M messages.
C30_PaginationEnds ==
    /\ <>(mb.pc \in {"done", "raised"})
    /\ [](mb.pc = "raised" => ~ mb.allOk)
    /\ []((mb.pc = "done" /\ mb.allOk /\ ~ mb.bounded) =>
             /\ mb.collected = [j \in 1..mb.M |-> j]
             /\ \A i \in 1..Len(mb.requests) :
                   NoContinuation(mb.requests[i]) <=> i = Len(mb.requests))

\* An unbounded call listed a mailbox over several pages to its end.
C30_Witness ==
    /\ mb.pc = "done" /\ mb.allOk /\ ~ mb.bounded
    /\ Len(mb.requests) >= 3
    /\ Len(mb.collected) = mb.M

----------------------------------------------------------------------------
(* Properties of the list requests of backup_mailbox *)

\* C33 (as claimed): every message-list request after the first uses the
\* continuation the preceding response returned; backup_mailbox builds no
\* list URL of its own after the initial one.
C33_OnlyContinuationsFollowed ==
    mb.pc # "off" =>
        \A i \in 2..Len(mb.requests) :
            LET link == NextLink(mb.requests[i-1].skip, mb.requests[i-1].top, mb.M, mb.S)
            IN  link.open /\ mb.requests[i].skip = link.skip /\ mb.requests[i].top = link.top

\* C34: with a bounded quota K no list request asks for more than the quota
\* still open when it is issued: the first asks for min(PageSizeDefault, K),
\* and a request issued with 0 < r < page_size messages left asks for r.
C34_PageSizeWithinQuota ==
    (mb.pc # "off" /\ mb.bounded) =>
        \A i \in 1..Len(mb.requests) :
            LET r == mb.K - mb.requests[i].had
            IN  /\ mb.requests[i].top <= r
                /\ i = 1 => mb.requests[i].top = Min(PageSizeDefault, mb.K)
                /\ (i > 1 /\ r < mb.page_size) => mb.requests[i].top = r

\* A quota above the default page size: a first request for the default
\* size, then a request for the smaller rest.
C34_Witness ==
    /\ mb.pc = "done" /\ mb.bounded /\ mb.allOk
    /\ mb.K > PageSizeDefault
    /\ Len(mb.requests) >= 2
    /\ mb.requests[1].top = PageSizeDefault
    /\ mb.requests[Len(mb.requests)].top < PageSizeDefault

----------------------------------------------------------------------------
(* Properties of the side fetches of backup_mailbox *)

\* C17 (as claimed): whatever the raw-MIME fetch and the attachment fetch of
\* a message do (succeed, answer non-success, raise), backup_mailbox is not
\* aborted: with every list request answered it returns, and its output holds
\* every message the list responses returned, up to the quota.
C17_SideFetchesNeverAbort ==
    (mb.pc \in {"done", "raised"} /\ mb.fault \notin {"list-status", "list-raised"}) =>
        /\ mb.pc = "done"
        /\ Len(mb.collected) >= (IF mb.bounded THEN Min(mb.K, mb.listed) ELSE mb.listed)

----------------------------------------------------------------------------
(* Properties of a failed message-list request *)

\* C22: after a non-200 response to a message-list request, backup_mailbox
\* issues no further list request in that call (the failed request is its
\* last, nothing is retried) and returns the messages it had collected from
\* the pages received before the failure.
C22_NoRetryAfterListFailure ==
    (mb.pc # "off" /\ mb.fault = "list-status") =>
        /\ mb.pc = "done"
        /\ Len(mb.collected) = mb.requests[Len(mb.requests)].had
        /\ \A i \in 1..(Len(mb.requests) - 1) : mb.requests[i].had < mb.requests[Len(mb.requests)].had

\* The second list request was answered non-200 after a first page of messages.
C22_Witness ==
    /\ mb.pc = "done" /\ mb.fault = "list-status"
    /\ Len(mb.requests) = 2 /\ Len(mb.collected) >= 2

----------------------------------------------------------------------------
(* Properties of backup_tenant *)

\* The messages of user i in the list backup_tenant returned.
ResultOf(i) ==
    SelectSeq(bt.result, LAMBDA it : it.user_principal = bt.dir[i].name)

MailboxFailed(i) == bt.attempts[i].fault # "none"

\* C15: a failure of backup_mailbox for one user does not stop backup_tenant:
\* the call does not raise because of it, every later user with a mailbox
\* gets its backup_mailbox call, and what that call returns is in the result.
C15_LaterUsersCollected ==
    /\ bt.pc = "raised" => bt.fault \in {"users-raised", "probe-raised"}
    /\ bt.pc = "returned" =>
          \A i, j \in 1..Len(bt.dir) :
              (i < j /\ MailboxFailed(i) /\ bt.dir[j].mailbox) =>
                  /\ bt.attempts[j].status \in {"returned", "raised"}
                  /\ bt.attempts[j].status = "returned" =>
                        ResultOf(j) = Collected(bt.tenant, bt.dir[j].name, bt.attempts[j].got)

\* backup_mailbox raised for the first user; a later user was collected
\* and its messages were returned.
C15_Witness ==
    /\ bt.pc = "returned" /\ Len(bt.dir) >= 2
    /\ bt.attempts[1].status = "raised"
    /\ \E j \in 2..Len(bt.dir) :
          /\ bt.attempts[j].status = "returned" /\ bt.attempts[j].fault = "none"
          /\ Len(ResultOf(j)) = 2

\* C16 (as claimed): when backup_mailbox fails part-way through a user's
\* collection, the result of backup_tenant holds the messages it had
\* collected for that user before the failure.
C16_PartialResultsKept ==
    bt.pc = "returned" =>
        \A i \in 1..Len(bt.dir) :
            MailboxFailed(i) => ResultOf(i) = Collected(bt.tenant, bt.dir[i].name, bt.attempts[i].got)

----------------------------------------------------------------------------
(* Properties of failures seen by backup_tenant *)

\* What backup_tenant has of a backup_mailbox call: how the call ended and the
\* list it handed over (nothing when it raised).
CallerView(a) == [status |-> a.status, msgs |-> IF a.status = "returned" THEN a.got ELSE <<>>]

\* What backup_tenant has of a call that listed a mailbox of n messages
\* completely, with no failure.
CompleteView(n) == [status |-> "returned", msgs |-> [j \in 1..n |-> j]]

\* C23 (as claimed): when a message-list request of backup_mailbox gets a
\* non-success response, the caller is given an error along with the partial
\* result: what backup_tenant has of the call differs from what it has of
\* every call that listed some mailbox completely.
C23_TruncationSurfaced ==
    bt.pc \in {"returned", "raised"} =>
        \A i \in 1..Len(bt.dir) :
            bt.attempts[i].fault = "list-status" =>
                \A n \in 0..bt.dir[i].M : CallerView(bt.attempts[i]) # CompleteView(n)

\* C24: if a page of the user enumeration of backup_tenant is answered
\* non-success, backup_tenant returns an empty list, and no mailbox probe and
\* no message-list request is issued for any user of the tenant, those
\* received on earlier pages included.
C24_EnumerationFailureAborts ==
    (bt.pc # "off" /\ bt.fault = "users-status") =>
        /\ bt.pc = "returned"
        /\ bt.result = <<>>
        /\ bt.u = 0
        /\ \A i \in 1..Len(bt.dir) : bt.attempts[i] = NoAttempt
        /\ mb = MbIdle

\* The second page of the enumeration failed after a first page of users.
C24_Witness ==
    /\ bt.pc = "returned" /\ bt.fault = "users-status"
    /\ bt.users > 0 /\ bt.users < Len(bt.dir)
    /\ \E i \in 1..bt.users : bt.dir[i].mailbox

\* C26 (as claimed): a message-list request of backup_mailbox that raises (a
\* timeout) has the outcome of a non-200 response: the call returns to
\* backup_tenant, with the messages collected from the earlier pages.
C26_TimeoutLikeNon200 ==
    bt.pc \in {"returned", "raised"} =>
        \A i \in 1..Len(bt.dir) :
            bt.attempts[i].fault = "list-raised" =>
                CallerView(bt.attempts[i]) = [status |-> "returned", msgs |-> bt.attempts[i].got]

----------------------------------------------------------------------------
(* Properties of deduplication across tenants *)

\* The first item of the batch of worker p whose content hashes to h.
FirstWith(p, h) ==
    LET ks == { k \in 1..Len(tx[p].batch) : compute_hash(tx[p].batch[k].message_json) = h }
    IN  tx[p].batch[CHOOSE k \in ks : \A j \in ks : k <= j]

\* A step adds rows r to messages_table only as the commit of one call, each
\* for a hash no committed row carried, with the origin of the first item of
\* that call's batch that has the hash.
RowsFromFirstItems ==
    \A r \in messages' \ messages :
        /\ ~ \E s \in messages : s.message_hash = r.message_hash
        /\ \E p \in Workers :
              /\ tx[p].pc = "commit"
              /\ r.message_hash \in tx[p].hashes
              /\ r.tenant = FirstWith(p, r.message_hash).tenant
              /\ r.user_principal = FirstWith(p, r.message_hash).user_principal
              /\ r.message_id = FirstWith(p, r.message_hash).message_id

\* C36: deduplication looks at the six identity fields only: messages with
\* equal identity fields coming from different tenants or users leave a
\* single row, and that row keeps the tenant, user_principal and message_id
\* of the one persisted first, whatever is collected later.
C36_DedupIgnoresOrigin ==
    /\ [](\A r1, r2 \in messages : r1.message_hash = r2.message_hash => r1 = r2)
    /\ [][ messages \subseteq messages' /\ RowsFromFirstItems ]_vars

\* The first tenant's message is stored; the second tenant's call, whose batch
\* held the same content, has returned and the row is still the first tenant's.
C36_Witness ==
    /\ tx["w2"].pc = "returned"
    /\ \E r \in messages :
          /\ r.tenant = "t1"
          /\ r.message_hash \in tx["w2"].hashes
          /\ Cardinality(RowsWithHash(r.message_hash)) = 1

----------------------------------------------------------------------------
(* Properties of the status stream *)

\* C21: the status stream never sends two identical payloads back-to-back:
\* whatever the task's entry was at each read of the polling loop, the last
\* event sent differs from the one sent before it.
C21_NoRepeatedEvent ==
    stream.pc # "off" => ~ stream.repeated

\* An iteration found the status it had already sent and sent nothing; two
\* events have been sent.
C21_Witness ==
    /\ stream.pc # "off"
    /\ stream.skipped
    /\ stream.several
    /\ ~ stream.repeated

\* C38 (as claimed): once the task is in its final state and its status stream
\* has ended, the last event the stream sent is a SUCCESS or FAILURE status,
\* and it names the task's final state.
C38_StreamEndsWithFinalState ==
    (stream.pc = "ended" /\ task.pc = "finished") =>
        /\ stream.event.keys = "status"
        /\ stream.event.state \in {"SUCCESS", "FAILURE"}
        /\ stream.event.state = task.stored.state

----------------------------------------------------------------------------
(* Properties of the multi-tenant runs *)

Persisted(items) ==
    \A k \in 1..Len(items) :
        \E r \in messages : r.message_hash = compute_hash(items[k].message_json)

\* C14 (as claimed): in every multi-tenant run in which nothing but token
\* acquisitions fails, each tenant whose token acquisition fails has its
\* backup_tenant call return an empty list, and every other tenant is
\* collected and the messages collected for it are persisted.
C14_TokenFailureIsolated ==
    (RunOver /\ run.clean) =>
        \A i \in 1..Len(run.tenants) :
            IF run.tenants[i].auth = "token-fails"
            THEN run.results[i].status \in {"none", "returned"} /\ run.results[i].items = <<>>
            ELSE /\ run.results[i].status = "returned"
                 /\ Len(run.results[i].items) = run.tenants[i].M
                 /\ Persisted(run.results[i].items)

\* C25 (as claimed): in the tenant_results of a multi-tenant run of
\* trigger_backup or backup_all_tenants_async, a tenant whose token
\* acquisition failed is reported with zero collected messages and an error
\* reason, so that its entry differs from that of a tenant collected
\* successfully with no messages.
C25_TokenFailureReported ==
    (RunOver /\ run.clean /\ run.kind \in {"trigger_backup", "backup_all_tenants_async"}) =>
        \A i \in 1..Len(run.tenants) :
            run.tenants[i].auth = "token-fails" =>
                /\ Len(run.tenant_results) >= i
                /\ run.tenant_results[i].messages_collected = 0
                /\ run.tenant_results[i] # TenantResult(run.tenants[i].name, <<>>)

\* A failure while tenant i was processed: in its backup_tenant call, or in
\* the store_snapshot call that followed it.
TenantFailedAt(i) == run.results[i].status = "raised" \/ (run.error /\ run.i = i)

\* C32 (as claimed): in the CLI snapshot action and in snapshot_job a failure
\* while one tenant is processed does not raise past the run: the run ends
\* normally and every other tenant has been collected, its messages persisted.
C32_RunSurvivesTenantFailure ==
    (RunOver /\ run.kind \in {"cli", "snapshot_job"}) =>
        /\ run.pc = "done"
        /\ \A i \in 1..Len(run.tenants) :
              ~ TenantFailedAt(i) =>
                  /\ run.results[i].status = "returned"
                  /\ Persisted(run.results[i].items)

\* C37: a run that has collected no message has not called store_snapshot:
\* while every backup_tenant call of the run so far has yielded nothing, the
\* snapshots and messages tables are as they were and no call has begun.
C37_EmptyRunStoresNothing ==
    (\A i \in 1..Len(run.tenants) : run.results[i].items = <<>>) =>
        /\ calls = 0
        /\ tx["w1"] = Idle
        /\ snapshots = {} /\ snapSeq = 0
        /\ messages = {} /\ msgSeq = 0

\* A run is over whose every tenant was collected and yielded nothing, one of
\* them from an empty mailbox it could read.
C37_Witness ==
    /\ RunOver /\ run.pc = "done"
    /\ \A i \in 1..Len(run.tenants) :
          run.results[i].status = "returned" /\ run.results[i].items = <<>>
    /\ \E i \in 1..Len(run.tenants) : run.tenants[i].auth = "ok" /\ run.tenants[i].M = 0
    /\ calls = 0 /\ snapshots = {}

----------------------------------------------------------------------------
(* Properties of the task states *)

\* C12 (as claimed): once the entry of a task holds SUCCESS or FAILURE, no
\* later write changes the state or what is stored with it.
C12_TerminalIsFinal ==
    [][ task.stored.state \in {"SUCCESS", "FAILURE"} => task'.stored = task.stored ]_vars

\* C13 (as claimed): if an attempt of the task raised an error that its
\* function did not absorb, the task ends in FAILURE carrying the error's
\* message, never in SUCCESS.
C13_ErrorEndsInFailure ==
    (task.pc = "finished" /\ task.raisedEver) =>
        /\ task.stored.state = "FAILURE"
        /\ task.stored.text = task.exc

\* C13 (amended): the task ends in FAILURE, carrying the error's message,
\* exactly when its last attempt raised an error its function did not absorb;
\* for backup_all_tenants_async and index_messages_async the first such error
\* is the last one, for backup_tenant_async it is the error of the attempt
\* after which no retry remains; a task that ends in SUCCESS after an error
\* is a backup_tenant_async whose retry raised nothing.
C13_LastErrorEndsInFailure ==
    task.pc = "finished" =>
        /\ task.lastRaised => task.stored = Failed(task.exc)
        /\ ~ task.lastRaised => task.stored.state = "SUCCESS"
        /\ (task.raisedEver /\ task.kind # "backup_tenant_async") =>
              task.stored = Failed(task.firstExc)
        /\ (task.lastRaised /\ task.kind = "backup_tenant_async") =>
              task.retries = MaxRetries
        /\ (task.raisedEver /\ task.stored.state = "SUCCESS") =>
              task.kind = "backup_tenant_async" /\ task.retries >= 1

\* backup_tenant_async used up its retries: the first attempt failed in the
\* collection, the last one in the persist step, whose error the entry carries.
C13_Witness ==
    /\ task.pc = "finished" /\ task.kind = "backup_tenant_async"
    /\ task.retries = MaxRetries
    /\ task.firstExc = CollectionError
    /\ task.stored = Failed(NoDatabaseOperations)

\* The list main.backup_tenant hands to backup_tenant_async when it has
\* collected something: the two messages of the tenant's mailbox.
TaskCollected == Collected("t1", "u1", <<1, 2>>)

\* C27 (as claimed): a backup_tenant_async call, retried as a whole, leaves
\* the message table with exactly one row per distinct hash it collected,
\* however many attempts ran.
C27_RetriesStoreOnce ==
    (task.pc = "finished" /\ task.kind = "backup_tenant_async" /\ task.collected) =>
        \A k \in 1..Len(TaskCollected) :
            Cardinality(RowsWithHash(compute_hash(TaskCollected[k].message_json))) = 1

\* A step that writes a PROGRESS entry for the task.
WritesProgress == task'.stored.state = "PROGRESS" /\ task'.stored # task.stored

\* C28 (as claimed): the progress values written with state PROGRESS for a
\* task stay within 0..100 and never decrease over the life of the task,
\* automatic retries included.
C28_ProgressMonotone ==
    [][ WritesProgress =>
           /\ task'.stored.progress \in 0..100
           /\ task'.stored.progress >= task.lastProgress ]_vars

\* C29: every submitted task ends, with SUCCESS or FAILURE as its entry, when
\* every call it makes returns or raises and the worker keeps running it;
\* backup_tenant_async runs at most 1 + MaxRetries attempts.
C29_TaskEnds ==
    /\ <>[](task.pc = "finished" /\ task.stored.state \in {"SUCCESS", "FAILURE"})
    /\ [](task.retries <= MaxRetries)

\* backup_tenant_async ended after its fourth attempt, each one stopped in
\* the persist step.
C29_Witness ==
    /\ task.pc = "finished" /\ task.kind = "backup_tenant_async"
    /\ task.retries = MaxRetries
    /\ task.firstExc = NoDatabaseOperations
    /\ task.stored.state = "FAILURE"

\* C31 (as claimed): a backup_tenant_async run whose collection yields at
\* least one message, with a database that accepts the batch, ends in SUCCESS
\* with the result of the persist step (snapshot id, inserted count,
\* messages_collected), not with the 'No messages found to backup' result.
C31_CollectedRunSucceeds ==
    (task.pc = "finished" /\ task.kind = "backup_tenant_async" /\ task.collected) =>
        /\ task.stored.state = "SUCCESS"
        /\ task.stored.kind = "result"
        /\ task.stored.text # "No messages found to backup"

----------------------------------------------------------------------------
(* Properties of get_backup_status *)

\* C20: no step of get_backup_status changes the stored state of the task,
\* and two requests with no write to the task's entry from the start of the
\* first to the end of the second return the same body.
C20_PollIsPure ==
    [][ /\ poll'.pc # poll.pc => task'.stored = task.stored
        /\ poll'.pair.quiet => poll'.pair.same ]_vars

\* Two requests in a row saw the task at the same PROGRESS entry.
C20_Witness ==
    /\ poll.pc = "idle"
    /\ poll.pair.quiet /\ poll.pair.same
    /\ poll.done.resp.state = "PROGRESS" /\ poll.done.resp.progress = 80

====
